---- MODULE Spec2Model ----
(***************************************************************************)
(* Model of the item manager: the Index page state (item types, items,     *)
(* projects, current view, selected project), the creator forms, the item  *)
(* list and the project view, as state machines over one set of variables. *)
(*                                                                         *)
(* Strings the code processes character by character (trim, split) are     *)
(* sequences of one-character strings; "" is <<>>.  A value that may be    *)
(* undefined / null is a sequence of length 0 (absent) or 1 (present).     *)
(* Date.now() is the variable now; an id `item_${Date.now()}` is the pair   *)
(* <<"item", now>>.                                                        *)
(***************************************************************************)
EXTENDS Integers, Sequences, FiniteSets, TLC

VARIABLES
  currentView,      \* Index: useState<View>
  selectedTypeId,   \* Index: useState<string>, None until a type is chosen
  selectedProject,  \* Index: useState<Project | null>
  itemTypes,        \* Index: useLocalStorage<ItemType[]>
  items,            \* Index: useLocalStorage<ItemInstance[]>
  projects,         \* Index: useLocalStorage<Project[]>
  now,              \* the wall clock read by Date.now() / new Date()
  tcTypeName,       \* ItemTypeCreator: typeName
  tcFields,         \* ItemTypeCreator: fields
  icErrors,         \* ItemCreator: errors
  pcErrors,         \* ProjectCreator: errors
  ilSelectedItems,  \* ItemList: selectedItems
  pvSelectedItems,  \* ProjectView: selectedItems
  pvIsAddingItems,  \* ProjectView: isAddingItems
  adSelectedItems,  \* AddItemsDialog: selectedItems, in insertion order
  ilSearchTerm,     \* ItemList: searchTerm
  pvSearchTerm,     \* ProjectView: searchTerm
  adSearchTerm,     \* AddItemsDialog: searchTerm
  written,          \* the workbook XLSX.writeFile was last given, if any
  lastOp            \* the handler that ran last and what it was given

vars == <<currentView, selectedTypeId, selectedProject, itemTypes, items,
          projects, now, tcTypeName, tcFields, icErrors, pcErrors,
          ilSelectedItems, pvSelectedItems, pvIsAddingItems, adSelectedItems,
          ilSearchTerm, pvSearchTerm, adSearchTerm, written, lastOp>>

collections == <<itemTypes, items, projects>>

----------------------------------------------------------------------------
\* Bounds of the model.

\* The clock takes the values 0..MaxTime.
MaxTime == 1
\* Ticks per calendar day: an ISO timestamp is <<day, tick within the day>>.
TicksPerDay == 2
\* At most MaxItems items are stored at once in the project specifications.
MaxItems == 2
\* At most MaxProjects projects are stored at once.
MaxProjects == 1
\* A type draft holds at most MaxFields fields.
MaxFields == 2
\* The registry holds at most MaxTypes item types.
MaxTypes == 1
\* A type draft of the options specification holds at most MaxOptFields fields.
MaxOptFields == 1
\* The item specification stores at most MaxSavedItems items.
MaxSavedItems == 1
\* The create specification stores at most MaxCreates entities in all.
MaxCreates == 2
\* onAddItems is given at most MaxAddLen ids at once.
MaxAddLen == 2
\* A project's itemIds grows to at most MaxMembers entries.
MaxMembers == 3
\* The search specification lists at most MaxSearchItems items.
MaxSearchItems == 2
\* The export specification stores at most MaxExportItems items.
MaxExportItems == 2
\* The project list specification stores at most MaxListedProjects projects.
MaxListedProjects == 2
\* Items stored when the item list's delete handler is exercised.
MaxStoredItems == 3
\* Types registered in the inventory specification.
MaxInventoryTypes == 2

\* Excel's limit on the length of a sheet name: typeName.slice(0, 31).
SheetNameLimit == 31

----------------------------------------------------------------------------
\* Values.

None == <<>>
Some(x) == <<x>>
IsSome(o) == Len(o) = 1
Get(o) == o[1]

EmptyStr == <<>>

Range(s) == {s[i] : i \in DOMAIN s}

\* Array.prototype.includes
Includes(s, x) == \E i \in DOMAIN s : s[i] = x

\* String.prototype.toLowerCase, a character at a time.
UpperLetters ==
  <<"A", "B", "C", "D", "E", "F", "G", "H", "I", "J", "K", "L", "M", "N", "O",
    "P", "Q", "R", "S", "T", "U", "V", "W", "X", "Y", "Z">>
LowerLetters ==
  <<"a", "b", "c", "d", "e", "f", "g", "h", "i", "j", "k", "l", "m", "n", "o",
    "p", "q", "r", "s", "t", "u", "v", "w", "x", "y", "z">>

toLowerChar(c) ==
  IF \E i \in DOMAIN UpperLetters : UpperLetters[i] = c
  THEN LowerLetters[CHOOSE i \in DOMAIN UpperLetters : UpperLetters[i] = c]
  ELSE c

toLowerCase(str) == [i \in DOMAIN str |-> toLowerChar(str[i])]

\* Mutant: only a match at the start of the string counts.
StrIncludes_PrefixOnly(str, searchString) ==
  /\ Len(searchString) <= Len(str)
  /\ SubSeq(str, 1, Len(searchString)) = searchString

\* String.prototype.includes: searchString occurs in str at some position.
StrIncludes(str, searchString) ==
  \E k \in 0..(Len(str) - Len(searchString)) :
    SubSeq(str, k + 1, k + Len(searchString)) = searchString

\* Object.values(data); the form stores strings, so String(value) is value.
ObjectValues(data) == {data[k] : k \in DOMAIN data}

\* new Date().toISOString(): the day, then the time within the day; ISO
\* strings of equal length compare as these pairs do.
toISOString(t) == <<t \div TicksPerDay, t % TicksPerDay>>

IsoLess(a, b) == a[1] < b[1] \/ (a[1] = b[1] /\ a[2] < b[2])

\* `item_${Date.now()}`, `project_${Date.now()}`, ...
MakeId(prefix, t) == <<prefix, t>>

\* lastOp: the handler's name, whether it went through, the ids it was given
\* or reported (as a set), its input where the order or the content matters
\* (an id sequence, or the form data in a one-element sequence) and, for a
\* handler that rewrites the projects, the projects as they were before it.
OpOn(name, ok, ids, seq, prev) ==
  [op |-> name, ok |-> ok, ids |-> ids, seq |-> seq, prev |-> prev]
Op(name, ok, ids, seq) == OpOn(name, ok, ids, seq, <<>>)
NoOp == Op("init", TRUE, {}, <<>>)

----------------------------------------------------------------------------
\* Index: derived values and handlers.

\* Array.prototype.find: the first element satisfying the test, if any.
FindTypeById(types, typeId) ==
  LET hits == {i \in DOMAIN types : Some(types[i].id) = typeId}
  IN IF hits = {} THEN None
     ELSE Some(types[CHOOSE i \in hits : \A j \in hits : i <= j])

selectedItemType == FindTypeById(itemTypes, selectedTypeId)

\* Leaving a view unmounts its component: its useState values start afresh.
LocalsReset ==
  /\ tcTypeName' = EmptyStr
  /\ tcFields' = <<>>
  /\ icErrors' = <<>>
  /\ pcErrors' = <<>>
  /\ ilSelectedItems' = {}
  /\ pvSelectedItems' = {}
  /\ pvIsAddingItems' = FALSE
  /\ adSelectedItems' = <<>>
  /\ ilSearchTerm' = EmptyStr
  /\ pvSearchTerm' = EmptyStr
  /\ adSearchTerm' = EmptyStr

locals == <<tcTypeName, tcFields, icErrors, pcErrors, ilSelectedItems,
            pvSelectedItems, pvIsAddingItems, adSelectedItems, ilSearchTerm,
            pvSearchTerm, adSearchTerm>>

\* setCurrentView(view) from a button of the page showing `from`.
Navigate(from, view) ==
  /\ currentView \in from
  /\ currentView' = view
  /\ LocalsReset
  /\ UNCHANGED written
  /\ lastOp' = Op("navigate", TRUE, {}, <<>>)
  /\ UNCHANGED <<selectedTypeId, selectedProject, collections, now>>

\* The "Back to Home" button, shown on every view but home.
BackToHome ==
  Navigate({"create-type", "create-item", "view-items", "create-project",
            "view-projects", "view-project"}, "home")

\* The cards of the home view.
HomeCard(view) ==
  /\ view \in {"create-project", "view-projects", "view-items", "create-type"}
  /\ Navigate({"home"}, view)

\* ProjectList onCreateNew.
ProjectListCreateNew == Navigate({"view-projects"}, "create-project")

\* ProjectView onBack.
ProjectViewBack == Navigate({"view-project"}, "view-projects")

\* The clock advances.
Tick ==
  /\ now < MaxTime
  /\ now' = now + 1
  /\ UNCHANGED written
  /\ lastOp' = Op("tick", TRUE, {}, <<>>)
  /\ UNCHANGED <<currentView, selectedTypeId, selectedProject, collections,
                 locals>>

\* handleCreateItem: the "New <type>" buttons of the home view and the item list.
handleCreateItem(typeId) ==
  /\ currentView \in {"home", "view-items"}
  /\ \E i \in DOMAIN itemTypes : itemTypes[i].id = typeId
  /\ selectedTypeId' = Some(typeId)
  /\ currentView' = "create-item"
  /\ LocalsReset
  /\ UNCHANGED written
  /\ lastOp' = Op("handleCreateItem", TRUE, {}, <<>>)
  /\ UNCHANGED <<selectedProject, collections, now>>

\* Mutant: the records whose id is given are the ones kept.
DeleteFromItems_KeepsGiven(its, itemIds) ==
  LET Keep(item) == item.id \in itemIds IN SelectSeq(its, Keep)

\* items.filter(item => !itemIds.includes(item.id))
DeleteFromItems(its, itemIds) ==
  LET Keep(item) == item.id \notin itemIds IN SelectSeq(its, Keep)

\* Mutant: the filter's test inverted.
FilterOutIds_Inverted(ids, itemIds) ==
  LET Keep(id) == id \in itemIds IN SelectSeq(ids, Keep)

\* project.itemIds.filter(id => !itemIds.includes(id))
FilterOutIds(ids, itemIds) ==
  LET Keep(id) == id \notin itemIds IN SelectSeq(ids, Keep)

\* projects.map(project => ({...project, itemIds: ..., updatedAt: ...}))
CascadeProjects(ps, itemIds, t) ==
  [i \in DOMAIN ps |->
     [ps[i] EXCEPT !.itemIds = FilterOutIds(ps[i].itemIds, itemIds),
                   !.updatedAt = toISOString(t)]]

\* Mutant: the items are deleted and the projects are left alone.
handleDeleteItems_ItemsOnly(itemIds) ==
  /\ items' = DeleteFromItems(items, itemIds)
  /\ projects' = projects

\* handleDeleteItems: both setItems and setProjects run in the one click
\* handler, so the page renders them together.
handleDeleteItems(itemIds) ==
  /\ items' = DeleteFromItems(items, itemIds)
  /\ projects' = CascadeProjects(projects, itemIds, now)

\* projects.map(p => p.id === updatedProject.id ? updatedProject : p)
ReplaceProject(ps, updatedProject) ==
  [i \in DOMAIN ps |->
     IF ps[i].id = updatedProject.id THEN updatedProject ELSE ps[i]]

\* handleUpdateProject
handleUpdateProject(updatedProject) ==
  /\ projects' = ReplaceProject(projects, updatedProject)
  /\ selectedProject' = Some(updatedProject)

\* handleViewProject: the "View" button of a project card.
handleViewProject(i) ==
  /\ currentView = "view-projects"
  /\ i \in DOMAIN projects
  /\ selectedProject' = Some(projects[i])
  /\ currentView' = "view-project"
  /\ LocalsReset
  /\ UNCHANGED written
  /\ lastOp' = Op("handleViewProject", TRUE, {}, <<>>)
  /\ UNCHANGED <<selectedTypeId, collections, now>>

\* projects.filter(p => p.id !== projectId)
DeleteFromProjects(ps, projectId) ==
  LET Keep(p) == p.id # projectId IN SelectSeq(ps, Keep)

\* ProjectList.handleDeleteProject (confirmed) -> Index.handleDeleteProject
handleDeleteProject(projectId) ==
  /\ currentView = "view-projects"
  /\ \E i \in DOMAIN projects : projects[i].id = projectId
  /\ projects' = DeleteFromProjects(projects, projectId)
  /\ UNCHANGED written
  /\ lastOp' = Op("handleDeleteProject", TRUE, {projectId}, <<>>)
  /\ UNCHANGED <<currentView, selectedTypeId, selectedProject, itemTypes,
                 items, now, locals>>

----------------------------------------------------------------------------
\* ItemList.

ItemIdsOf(its) == {its[i].id : i \in DOMAIN its}

\* toggleItemSelection on a Set.
ToggleInSet(selected, itemId) ==
  IF itemId \in selected THEN selected \ {itemId} ELSE selected \cup {itemId}

\* ItemList.filteredItems
filteredItems(its, searchTerm) ==
  IF searchTerm = EmptyStr THEN its
  ELSE LET Hit(item) ==
             LET searchString == toLowerCase(searchTerm) IN
             IF StrIncludes(toLowerCase(item.typeName), searchString) THEN TRUE
             ELSE \E value \in ObjectValues(item.data) :
                    StrIncludes(toLowerCase(value), searchString)
       IN SelectSeq(its, Hit)

\* ItemList: typing in the search box
ILSetSearchTerm(value) ==
  /\ currentView = "view-items"
  /\ ilSearchTerm' = value
  /\ UNCHANGED written
  /\ lastOp' = Op("setSearchTerm", TRUE, {}, <<>>)
  /\ UNCHANGED <<currentView, selectedTypeId, selectedProject, collections,
                 now, tcTypeName, tcFields, icErrors, pcErrors,
                 ilSelectedItems, pvSelectedItems, pvIsAddingItems,
                 adSelectedItems, pvSearchTerm, adSearchTerm>>

\* ItemList.toggleItemSelection: the checkbox of a listed item
ILToggleItemSelection(itemId) ==
  /\ currentView = "view-items"
  /\ itemId \in ItemIdsOf(filteredItems(items, ilSearchTerm))
  /\ ilSelectedItems' = ToggleInSet(ilSelectedItems, itemId)
  /\ UNCHANGED written
  /\ lastOp' = Op("toggleItemSelection", TRUE, {}, <<>>)
  /\ UNCHANGED <<currentView, selectedTypeId, selectedProject, collections,
                 now, tcTypeName, tcFields, icErrors, pcErrors,
                 pvSelectedItems, pvIsAddingItems, adSelectedItems,
                 ilSearchTerm, pvSearchTerm, adSearchTerm>>

\* ItemList.toggleSelectAll: the "Select all" checkbox, rendered while the
\* filtered list is not empty.
ILToggleSelectAll ==
  /\ currentView = "view-items"
  /\ filteredItems(items, ilSearchTerm) # <<>>
  /\ ilSelectedItems' =
       IF Cardinality(ilSelectedItems) = Len(filteredItems(items, ilSearchTerm))
       THEN {}
       ELSE ItemIdsOf(filteredItems(items, ilSearchTerm))
  /\ UNCHANGED written
  /\ lastOp' = Op("toggleSelectAllItems", TRUE, ilSelectedItems, <<>>)
  /\ UNCHANGED <<currentView, selectedTypeId, selectedProject, collections,
                 now, tcTypeName, tcFields, icErrors, pcErrors,
                 pvSelectedItems, pvIsAddingItems, adSelectedItems,
                 ilSearchTerm, pvSearchTerm, adSearchTerm>>

\* The property names of groupedByType in the order the reduce creates them:
\* each typeName where it is first met.
RECURSIVE GroupKeys(_)
GroupKeys(records) ==
  IF records = <<>> THEN <<>>
  ELSE LET before == GroupKeys(SubSeq(records, 1, Len(records) - 1))
           typeName == records[Len(records)].typeName
       IN IF Includes(before, typeName) THEN before
          ELSE Append(before, typeName)

\* Property names every object literal inherits from Object.prototype (three
\* of them): acc[name] is then truthy before anything was stored under it.
InheritedNames ==
  {<<"c", "o", "n", "s", "t", "r", "u", "c", "t", "o", "r">>,
   <<"t", "o", "S", "t", "r", "i", "n", "g">>,
   <<"v", "a", "l", "u", "e", "O", "f">>}

\* The reduce throws a TypeError: for an inherited name !acc[item.typeName]
\* is false, no array is stored, and acc[item.typeName].push is undefined.
GroupingThrows(records) ==
  \E i \in DOMAIN records : records[i].typeName \in InheritedNames

\* acc[item.typeName]: the records pushed under one property.
GroupOf(records, typeName) ==
  LET Same(item) == item.typeName = typeName IN SelectSeq(records, Same)

Digits == <<"0", "1", "2", "3", "4", "5", "6", "7", "8", "9">>

IsDigit(c) == \E i \in DOMAIN Digits : Digits[i] = c

DigitValue(c) == (CHOOSE i \in DOMAIN Digits : Digits[i] = c) - 1

\* A property name that is a canonical array index: decimal digits without a
\* leading zero (the names of the model stay far below 2^32 - 1).
IsArrayIndex(key) ==
  /\ key # <<>>
  /\ \A i \in DOMAIN key : IsDigit(key[i])
  /\ Len(key) = 1 \/ key[1] # "0"

RECURSIVE NumericValue(_)
NumericValue(key) ==
  IF key = <<>> THEN 0
  ELSE 10 * NumericValue(SubSeq(key, 1, Len(key) - 1)) + DigitValue(key[Len(key)])

\* The keys of the set in ascending numeric order.
RECURSIVE Ascending(_)
Ascending(keys) ==
  IF keys = {} THEN <<>>
  ELSE LET least == CHOOSE k \in keys :
                      \A other \in keys : NumericValue(k) <= NumericValue(other)
       IN <<least>> \o Ascending(keys \ {least})

\* Object.entries: the array-index property names first, in ascending
\* numeric order, then the other names in the order of their creation.
ObjectEntriesOrder(created) ==
  LET IsIndex(key) == IsArrayIndex(key)
      IsName(key) == ~IsArrayIndex(key)
  IN Ascending(Range(SelectSeq(created, IsIndex))) \o SelectSeq(created, IsName)

\* Mutant: the last type of that name is taken.
FindTypeByName_Last(types, typeName) ==
  LET hits == {i \in DOMAIN types : types[i].name = typeName}
  IN IF hits = {} THEN None
     ELSE Some(types[CHOOSE i \in hits : \A j \in hits : j <= i])

\* itemTypes.find(type => type.name === typeName)
FindTypeByName(types, typeName) ==
  LET hits == {i \in DOMAIN types : types[i].name = typeName}
  IN IF hits = {} THEN None
     ELSE Some(types[CHOOSE i \in hits : \A j \in hits : i <= j])

\* new Date(x): the calendar day of an ISO timestamp; a date input's value
\* already is one.
DayOfISO(iso) == iso[1]

\* Date.prototype.toLocaleDateString: the day in the locale's notation.
toLocaleDateString(day) == <<"locale", day>>

IdLabel == <<"I", "D">>
CreatedAtLabel == <<"C", "r", "e", "a", "t", "e", "d", " ", "A", "t">>

\* ['ID', 'Created At', ...itemType.fields.map(field => field.name)]
SheetHeaders(itemType) ==
  <<IdLabel, CreatedAtLabel>>
    \o [i \in DOMAIN itemType.fields |-> itemType.fields[i].name]

\* item.data[field.id] || ''
DataCell(item, field) ==
  IF field.id \in DOMAIN item.data THEN item.data[field.id] ELSE EmptyStr

\* Mutant: the row starts with the date, then the id.
SheetRow_DateFirst(item, itemType) ==
  <<toLocaleDateString(DayOfISO(item.createdAt)), item.id>>
    \o [i \in DOMAIN itemType.fields |-> DataCell(item, itemType.fields[i])]

\* [item.id, new Date(item.createdAt).toLocaleDateString(), ...cells]
SheetRow(item, itemType) ==
  <<item.id, toLocaleDateString(DayOfISO(item.createdAt))>>
    \o [i \in DOMAIN itemType.fields |-> DataCell(item, itemType.fields[i])]

\* Mutant: nothing is cut off.
SliceTo_Whole(str, n) == str

\* String.prototype.slice(0, n)
SliceTo(str, n) == SubSeq(str, 1, IF Len(str) < n THEN Len(str) ELSE n)

\* The sheet appended for one group: the header row, then a row per item,
\* under the first SheetNameLimit characters of the type name.  (The '!cols'
\* widths are display attributes and are not part of the sheet here.)
TypeSheet(typeName, typeItems, itemType) ==
  [name |-> SliceTo(typeName, SheetNameLimit),
   data |-> <<SheetHeaders(itemType)>>
              \o [i \in DOMAIN typeItems |-> SheetRow(typeItems[i], itemType)]]

\* Object.entries(groupedByType).forEach(...): a sheet per group whose type
\* is found, in the order of the entries.
TypeSheets(records, types) ==
  LET entries == ObjectEntriesOrder(GroupKeys(records))
      Found(typeName) == IsSome(FindTypeByName(types, typeName))
      found == SelectSeq(entries, Found)
  IN [i \in DOMAIN found |->
        TypeSheet(found[i], GroupOf(records, found[i]),
                  Get(FindTypeByName(types, found[i])))]

\* new Date().toISOString().split('T')[0]
ExportDate(t) == toISOString(t)[1]

ItemsLabel == <<"i", "t", "e", "m", "s">>

\* items.filter(item => selectedItems.has(item.id))
SelectedItemsData(its, selected) ==
  LET Picked(item) == item.id \in selected IN SelectSeq(its, Picked)

\* Mutant: the export writes a workbook whatever is selected.
exportToExcel_AlwaysWrites ==
  /\ currentView = "view-items"
  /\ written' =
       Some([sheets |-> TypeSheets(SelectedItemsData(items, ilSelectedItems),
                                   itemTypes),
             subject |-> ItemsLabel,
             date |-> ExportDate(now)])
  /\ lastOp' = Op("exportItems", TRUE, ilSelectedItems,
                  SelectedItemsData(items, ilSelectedItems))
  /\ UNCHANGED <<currentView, selectedTypeId, selectedProject, collections,
                 now, locals>>

\* ItemList.exportToExcel: nothing happens while nothing is selected; the
\* handler ends in a TypeError if the grouping throws; otherwise the workbook
\* of the selected items is written.
exportToExcel ==
  /\ currentView = "view-items"
  /\ IF ilSelectedItems = {}
     THEN /\ UNCHANGED written
          /\ lastOp' = Op("exportItems", FALSE, {}, <<>>)
     ELSE IF GroupingThrows(SelectedItemsData(items, ilSelectedItems))
     THEN /\ UNCHANGED written
          /\ lastOp' = Op("exportItems", FALSE, ilSelectedItems,
                          SelectedItemsData(items, ilSelectedItems))
     ELSE /\ written' =
               Some([sheets |-> TypeSheets(SelectedItemsData(items, ilSelectedItems),
                                           itemTypes),
                     subject |-> ItemsLabel,
                     date |-> ExportDate(now)])
          /\ lastOp' = Op("exportItems", TRUE, ilSelectedItems,
                          SelectedItemsData(items, ilSelectedItems))
  /\ UNCHANGED <<currentView, selectedTypeId, selectedProject, collections,
                 now, locals>>

\* ItemList's onDeleteItems prop: handleDeleteItems called with an id array.
onDeleteItems(itemIds) ==
  /\ currentView = "view-items"
  /\ handleDeleteItems(itemIds)
  /\ UNCHANGED written
  /\ lastOp' = OpOn("deleteItems", TRUE, itemIds, <<>>, projects)
  /\ UNCHANGED <<currentView, selectedTypeId, selectedProject, itemTypes,
                 now, locals>>

\* ItemList.handleDeleteSelected, confirmed: onDeleteItems(Array.from(selectedItems))
handleDeleteSelected ==
  /\ currentView = "view-items"
  /\ ilSelectedItems # {}
  /\ handleDeleteItems(ilSelectedItems)
  /\ ilSelectedItems' = {}
  /\ UNCHANGED written
  /\ lastOp' = OpOn("deleteItems", TRUE, ilSelectedItems, <<>>, projects)
  /\ UNCHANGED <<currentView, selectedTypeId, selectedProject, itemTypes,
                 now, tcTypeName, tcFields, icErrors, pcErrors,
                 pvSelectedItems, pvIsAddingItems, adSelectedItems,
                 ilSearchTerm, pvSearchTerm, adSearchTerm>>

----------------------------------------------------------------------------
\* ItemCreator.

\* !formData[field.id] || formData[field.id] === '' : form values are the
\* strings the inputs deliver, so only undefined and '' are falsy.
IsBlank(formData, fieldId) ==
  fieldId \notin DOMAIN formData \/ formData[fieldId] = EmptyStr

\* The fields validateForm's forEach records an error for.
FailingFields(itemType, formData) ==
  {i \in DOMAIN itemType.fields :
     itemType.fields[i].required /\ IsBlank(formData, itemType.fields[i].id)}

\* Mutant: validation stops at the first failing field.
validateFormErrors_FirstOnly(itemType, formData) ==
  LET failing == FailingFields(itemType, formData)
      first == {i \in failing : \A j \in failing : i <= j}
  IN [id \in {itemType.fields[i].id : i \in first} |->
        <<itemType.fields[CHOOSE i \in first : TRUE].name, "is required">>]

\* validateForm's newErrors: keyed by field id, a later field overwriting an
\* earlier one of the same id.
validateFormErrors(itemType, formData) ==
  LET failing == FailingFields(itemType, formData)
      Last(id) == CHOOSE i \in failing :
                    /\ itemType.fields[i].id = id
                    /\ \A j \in failing : itemType.fields[j].id = id => j <= i
  IN [id \in {itemType.fields[i].id : i \in failing} |->
        <<itemType.fields[Last(id)].name, "is required">>]

\* Mutant: the form always validates.
validateForm_AlwaysPasses(itemType, formData) == TRUE

\* Object.keys(newErrors).length === 0
validateForm(itemType, formData) ==
  DOMAIN validateFormErrors(itemType, formData) = {}

\* Mutant: the type's id is stored as the item's typeName.
NewItem_NamedById(itemType, formData, t) ==
  [id |-> MakeId("item", now),
   typeId |-> itemType.id,
   typeName |-> itemType.id,
   data |-> formData,
   createdAt |-> toISOString(t)]

\* The new item of ItemCreator.handleSave: Date.now() read at `now`, new Date()
\* at t.
NewItem(itemType, formData, t) ==
  [id |-> MakeId("item", now),
   typeId |-> itemType.id,
   typeName |-> itemType.name,
   data |-> formData,
   createdAt |-> toISOString(t)]

\* ItemCreator.handleSave with the form holding formData; on success
\* Index.handleSaveItem appends the item and shows the item list.
ItemCreatorHandleSave(formData, t) ==
  /\ currentView = "create-item"
  /\ IsSome(selectedItemType)
  /\ now <= t /\ t <= MaxTime
  /\ LET itemType == Get(selectedItemType) IN
     IF ~validateForm(itemType, formData)
     THEN /\ t = now
          /\ icErrors' = validateFormErrors(itemType, formData)
          /\ UNCHANGED written
          /\ lastOp' = Op("createItem", FALSE,
                          DOMAIN validateFormErrors(itemType, formData),
                          <<formData>>)
          /\ UNCHANGED <<currentView, selectedTypeId, selectedProject,
                         collections, now, tcTypeName, tcFields, pcErrors,
                         ilSelectedItems, pvSelectedItems, pvIsAddingItems,
                         adSelectedItems,
                         ilSearchTerm, pvSearchTerm, adSearchTerm>>
     ELSE /\ items' = Append(items, NewItem(itemType, formData, t))
          /\ currentView' = "view-items"
          /\ now' = t
          /\ LocalsReset
          /\ UNCHANGED written
          /\ lastOp' = Op("createItem", TRUE, {}, <<formData>>)
          /\ UNCHANGED <<selectedTypeId, selectedProject, itemTypes, projects>>

----------------------------------------------------------------------------
\* ProjectCreator.

IsSpace(c) == c = " "

\* String.prototype.trim
RECURSIVE TrimLeft(_)
TrimLeft(s) ==
  IF s # <<>> /\ IsSpace(Head(s)) THEN TrimLeft(Tail(s)) ELSE s

RECURSIVE TrimRight(_)
TrimRight(s) ==
  IF s # <<>> /\ IsSpace(s[Len(s)])
  THEN TrimRight(SubSeq(s, 1, Len(s) - 1)) ELSE s

Trim(s) == TrimRight(TrimLeft(s))

\* Mutant: only the name is validated.
projectFormErrors_NameOnly(formData) ==
  [k \in {key \in {"name"} : Trim(formData[key]) = EmptyStr} |->
     "Project name is required"]

\* ProjectCreator.validateForm's newErrors.
projectFormErrors(formData) ==
  [k \in {key \in {"name", "location"} : Trim(formData[key]) = EmptyStr} |->
     IF k = "name" THEN "Project name is required"
     ELSE "Location is required"]

\* The new project of ProjectCreator.handleSave: Date.now() read at `now`, the
\* two new Date() at tc and tu.
NewProject(formData, tc, tu) ==
  [id |-> MakeId("project", now),
   name |-> Trim(formData.name),
   description |-> Trim(formData.description),
   location |-> Trim(formData.location),
   itemIds |-> <<>>,
   createdAt |-> toISOString(tc),
   updatedAt |-> toISOString(tu)]

\* ProjectCreator.handleSave with the form holding formData; on success
\* Index.handleSaveProject appends the project and shows the project list.
ProjectCreatorHandleSave(formData, tc, tu) ==
  /\ currentView = "create-project"
  /\ now <= tc /\ tc <= tu /\ tu <= MaxTime
  /\ IF DOMAIN projectFormErrors(formData) # {}
     THEN /\ tc = now /\ tu = now
          /\ pcErrors' = projectFormErrors(formData)
          /\ UNCHANGED written
          /\ lastOp' = Op("createProject", FALSE,
                          DOMAIN projectFormErrors(formData), <<formData>>)
          /\ UNCHANGED <<currentView, selectedTypeId, selectedProject,
                         collections, now, tcTypeName, tcFields, icErrors,
                         ilSelectedItems, pvSelectedItems, pvIsAddingItems,
                         adSelectedItems,
                         ilSearchTerm, pvSearchTerm, adSearchTerm>>
     ELSE /\ projects' = Append(projects, NewProject(formData, tc, tu))
          /\ currentView' = "view-projects"
          /\ now' = tu
          /\ LocalsReset
          /\ UNCHANGED written
          /\ lastOp' = Op("createProject", TRUE, {}, <<formData>>)
          /\ UNCHANGED <<selectedTypeId, selectedProject, itemTypes, items>>

----------------------------------------------------------------------------
\* ItemTypeCreator.  The draft inputs (currentField, selectOptions) are what
\* the form holds when "Add Field" is clicked; addField resets them.

\* String.prototype.split(',')
RECURSIVE SplitFrom(_, _, _)
SplitFrom(s, sep, cur) ==
  IF s = <<>> THEN <<cur>>
  ELSE IF Head(s) = sep THEN <<cur>> \o SplitFrom(Tail(s), sep, <<>>)
       ELSE SplitFrom(Tail(s), sep, Append(cur, Head(s)))

Split(s, sep) == SplitFrom(s, sep, <<>>)

\* selectOptions.split(',').map(opt => opt.trim()).filter(Boolean)
ParseOptions(selectOptions) ==
  LET tokens == Split(selectOptions, ",")
      trimmed == [i \in DOMAIN tokens |-> Trim(tokens[i])]
      NonEmpty(opt) == opt # EmptyStr
  IN SelectSeq(trimmed, NonEmpty)

\* addField's options: parsed for a select field with a truthy raw input,
\* undefined otherwise.
FieldOptions(type, selectOptions) ==
  IF type = "select" /\ selectOptions # EmptyStr
  THEN Some(ParseOptions(selectOptions))
  ELSE None

\* addField's newField
NewField(name, type, required, selectOptions) ==
  [id |-> MakeId("field", now),
   name |-> name,
   type |-> type,
   required |-> required,
   options |-> FieldOptions(type, selectOptions)]

\* setTypeName
setTypeName(value) ==
  /\ currentView = "create-type"
  /\ tcTypeName' = value
  /\ UNCHANGED written
  /\ lastOp' = Op("setTypeName", TRUE, {}, <<>>)
  /\ UNCHANGED <<currentView, selectedTypeId, selectedProject, collections,
                 now, tcFields, icErrors, pcErrors, ilSelectedItems,
                 pvSelectedItems, pvIsAddingItems, adSelectedItems,
                 ilSearchTerm, pvSearchTerm, adSearchTerm>>

\* addField
addField(name, type, required, selectOptions) ==
  /\ currentView = "create-type"
  /\ name # EmptyStr
  /\ tcFields' = Append(tcFields, NewField(name, type, required, selectOptions))
  /\ UNCHANGED written
  /\ lastOp' = Op("addField", TRUE, {MakeId("field", now)}, <<>>)
  /\ UNCHANGED <<currentView, selectedTypeId, selectedProject, collections,
                 now, tcTypeName, icErrors, pcErrors, ilSelectedItems,
                 pvSelectedItems, pvIsAddingItems, adSelectedItems,
                 ilSearchTerm, pvSearchTerm, adSearchTerm>>

\* fields.filter(field => field.id !== id)
RemoveFieldById(fields, id) ==
  LET Keep(field) == field.id # id IN SelectSeq(fields, Keep)

\* removeField: the X of a listed field
removeField(id) ==
  /\ currentView = "create-type"
  /\ \E i \in DOMAIN tcFields : tcFields[i].id = id
  /\ tcFields' = RemoveFieldById(tcFields, id)
  /\ UNCHANGED written
  /\ lastOp' = Op("removeField", TRUE, {id}, <<>>)
  /\ UNCHANGED <<currentView, selectedTypeId, selectedProject, collections,
                 now, tcTypeName, icErrors, pcErrors, ilSelectedItems,
                 pvSelectedItems, pvIsAddingItems, adSelectedItems,
                 ilSearchTerm, pvSearchTerm, adSearchTerm>>

\* The new type of ItemTypeCreator.handleSave: Date.now() read at `now`, new
\* Date() at t.
NewItemType(t) ==
  [id |-> MakeId("type", now),
   name |-> tcTypeName,
   fields |-> tcFields,
   createdAt |-> toISOString(t)]

\* Mutant: only the name is checked.
TypeDraftRejected_NameOnly == tcTypeName = EmptyStr

\* !typeName || fields.length === 0
TypeDraftRejected == tcTypeName = EmptyStr \/ tcFields = <<>>

\* ItemTypeCreator.handleSave; on success Index.handleSaveItemType appends the
\* type and shows the home view.
TypeCreatorHandleSave(t) ==
  /\ currentView = "create-type"
  /\ now <= t /\ t <= MaxTime
  /\ IF TypeDraftRejected
     THEN /\ t = now
          /\ UNCHANGED written
          /\ lastOp' = Op("createType", FALSE, {}, <<>>)
          /\ UNCHANGED <<currentView, selectedTypeId, selectedProject,
                         collections, now, locals>>
     ELSE /\ itemTypes' = Append(itemTypes, NewItemType(t))
          /\ currentView' = "home"
          /\ now' = t
          /\ LocalsReset
          /\ UNCHANGED written
          /\ lastOp' = Op("createType", TRUE, {}, <<>>)
          /\ UNCHANGED <<selectedTypeId, selectedProject, items, projects>>

----------------------------------------------------------------------------
\* ProjectView and its AddItemsDialog; `project` is the selectedProject prop.

\* allItems.filter(item => project.itemIds.includes(item.id))
projectItems(project, allItems) ==
  LET Member(item) == Includes(project.itemIds, item.id)
  IN SelectSeq(allItems, Member)

\* Mutant: the dialog offers every item, members included.
availableItems_All(project, allItems) == allItems

\* allItems.filter(item => !project.itemIds.includes(item.id))
availableItems(project, allItems) ==
  LET Free(item) == ~Includes(project.itemIds, item.id)
  IN SelectSeq(allItems, Free)

IsAlphanumeric(c) ==
  \/ IsDigit(c)
  \/ \E i \in DOMAIN UpperLetters : UpperLetters[i] = c \/ LowerLetters[i] = c

\* project.name.replace(/[^a-zA-Z0-9]/g, '_')
FileSubject(name) ==
  [i \in DOMAIN name |-> IF IsAlphanumeric(name[i]) THEN name[i] ELSE "_"]

ProjectInfoName ==
  <<"P", "r", "o", "j", "e", "c", "t", " ", "I", "n", "f", "o">>

\* Mutant: the total counts the member ids, resolved or not.
ProjectInfoSheet_CountsIds(project, members) ==
  [name |-> ProjectInfoName,
   data |-> <<<<"Project Name", project.name>>,
              <<"Description", project.description>>,
              <<"Location", project.location>>,
              <<"Created At", toLocaleDateString(DayOfISO(project.createdAt))>>,
              <<"Updated At", toLocaleDateString(DayOfISO(project.updatedAt))>>,
              <<"Total Items", Len(project.itemIds)>>>>]

\* exportProject's projectInfo rows, appended as the sheet 'Project Info'
ProjectInfoSheet(project, members) ==
  [name |-> ProjectInfoName,
   data |-> <<<<"Project Name", project.name>>,
              <<"Description", project.description>>,
              <<"Location", project.location>>,
              <<"Created At", toLocaleDateString(DayOfISO(project.createdAt))>>,
              <<"Updated At", toLocaleDateString(DayOfISO(project.updatedAt))>>,
              <<"Total Items", Len(members)>>>>]

\* ProjectView.exportProject: nothing happens while the project has no item
\* to show; the handler ends in a TypeError if the grouping throws; otherwise
\* the info sheet and the type sheets are written.
exportProject ==
  /\ currentView = "view-project"
  /\ IsSome(selectedProject)
  /\ LET project == Get(selectedProject)
         members == projectItems(project, items)
     IN IF members = <<>>
        THEN /\ UNCHANGED written
             /\ lastOp' = Op("exportProject", FALSE, {}, <<>>)
        ELSE IF GroupingThrows(members)
        THEN /\ UNCHANGED written
             /\ lastOp' = Op("exportProject", FALSE, Range(project.itemIds),
                             members)
        ELSE /\ written' =
                  Some([sheets |-> <<ProjectInfoSheet(project, members)>>
                                     \o TypeSheets(members, itemTypes),
                        subject |-> FileSubject(project.name),
                        date |-> ExportDate(now)])
             /\ lastOp' = Op("exportProject", TRUE, Range(project.itemIds),
                             members)
  /\ UNCHANGED <<currentView, selectedTypeId, selectedProject, collections,
                 now, locals>>

\* ProjectView.filteredProjectItems
filteredProjectItems(its, searchTerm) ==
  IF searchTerm = EmptyStr THEN its
  ELSE LET Hit(item) ==
             LET searchString == toLowerCase(searchTerm) IN
             IF StrIncludes(toLowerCase(item.typeName), searchString) THEN TRUE
             ELSE \E value \in ObjectValues(item.data) :
                    StrIncludes(toLowerCase(value), searchString)
       IN SelectSeq(its, Hit)

\* Mutant: the dialog searches the type name only.
ADfilteredItems_TypeNameOnly(its, searchTerm) ==
  LET Hit(item) ==
        StrIncludes(toLowerCase(item.typeName), toLowerCase(searchTerm))
  IN SelectSeq(its, Hit)

\* AddItemsDialog.filteredItems: no shortcut for the empty search term
ADfilteredItems(its, searchTerm) ==
  LET Hit(item) ==
        LET searchString == toLowerCase(searchTerm) IN
        \/ StrIncludes(toLowerCase(item.typeName), searchString)
        \/ \E value \in ObjectValues(item.data) :
             StrIncludes(toLowerCase(value), searchString)
  IN SelectSeq(its, Hit)

\* ProjectView: typing in the search box
PVSetSearchTerm(value) ==
  /\ currentView = "view-project"
  /\ IsSome(selectedProject)
  /\ pvSearchTerm' = value
  /\ UNCHANGED written
  /\ lastOp' = Op("setSearchTerm", TRUE, {}, <<>>)
  /\ UNCHANGED <<currentView, selectedTypeId, selectedProject, collections,
                 now, tcTypeName, tcFields, icErrors, pcErrors,
                 ilSelectedItems, pvSelectedItems, pvIsAddingItems,
                 adSelectedItems, ilSearchTerm, adSearchTerm>>

\* AddItemsDialog: typing in the search box
ADSetSearchTerm(value) ==
  /\ currentView = "view-project"
  /\ IsSome(selectedProject)
  /\ pvIsAddingItems
  /\ adSearchTerm' = value
  /\ UNCHANGED written
  /\ lastOp' = Op("setSearchTerm", TRUE, {}, <<>>)
  /\ UNCHANGED <<currentView, selectedTypeId, selectedProject, collections,
                 now, tcTypeName, tcFields, icErrors, pcErrors,
                 ilSelectedItems, pvSelectedItems, pvIsAddingItems,
                 adSelectedItems, ilSearchTerm, pvSearchTerm>>

\* addItemsToProject's updatedProject
AddItemIds(project, itemIds, t) ==
  [project EXCEPT !.itemIds = project.itemIds \o itemIds,
                  !.updatedAt = toISOString(t)]

\* Mutant: the ids are removed and updatedAt is left as it was.
RemoveItemIds_KeepsStamp(project, selected, t) ==
  [project EXCEPT !.itemIds = FilterOutIds(project.itemIds, selected)]

\* removeSelectedItems' updatedProject
RemoveItemIds(project, selected, t) ==
  [project EXCEPT !.itemIds = FilterOutIds(project.itemIds, selected),
                  !.updatedAt = toISOString(t)]

\* ProjectView.toggleItemSelection on a listed member item
PVToggleItemSelection(itemId) ==
  /\ currentView = "view-project"
  /\ IsSome(selectedProject)
  /\ itemId \in ItemIdsOf(filteredProjectItems(
                             projectItems(Get(selectedProject), items),
                             pvSearchTerm))
  /\ pvSelectedItems' = ToggleInSet(pvSelectedItems, itemId)
  /\ UNCHANGED written
  /\ lastOp' = Op("toggleItemSelection", TRUE, {}, <<>>)
  /\ UNCHANGED <<currentView, selectedTypeId, selectedProject, collections,
                 now, tcTypeName, tcFields, icErrors, pcErrors,
                 ilSelectedItems, pvIsAddingItems, adSelectedItems,
                 ilSearchTerm, pvSearchTerm, adSearchTerm>>

\* ProjectView.toggleSelectAll: the checkbox of the table header, rendered
\* while the filtered member list is not empty.
PVToggleSelectAll ==
  /\ currentView = "view-project"
  /\ IsSome(selectedProject)
  /\ LET shown == filteredProjectItems(
                     projectItems(Get(selectedProject), items), pvSearchTerm)
     IN /\ shown # <<>>
        /\ pvSelectedItems' =
             IF Cardinality(pvSelectedItems) = Len(shown) THEN {}
             ELSE ItemIdsOf(shown)
  /\ UNCHANGED written
  /\ lastOp' = Op("toggleSelectAllMembers", TRUE, pvSelectedItems, <<>>)
  /\ UNCHANGED <<currentView, selectedTypeId, selectedProject, collections,
                 now, tcTypeName, tcFields, icErrors, pcErrors,
                 ilSelectedItems, pvIsAddingItems, adSelectedItems,
                 ilSearchTerm, pvSearchTerm, adSearchTerm>>

\* removeSelectedItems, confirmed
removeSelectedItems ==
  /\ currentView = "view-project"
  /\ IsSome(selectedProject)
  /\ pvSelectedItems # {}
  /\ handleUpdateProject(RemoveItemIds(Get(selectedProject), pvSelectedItems, now))
  /\ pvSelectedItems' = {}
  /\ UNCHANGED written
  /\ lastOp' = OpOn("removeItems", TRUE, pvSelectedItems, <<>>, projects)
  /\ UNCHANGED <<currentView, selectedTypeId, itemTypes, items, now,
                 tcTypeName, tcFields, icErrors, pcErrors, ilSelectedItems,
                 pvIsAddingItems, adSelectedItems,
                 ilSearchTerm, pvSearchTerm, adSearchTerm>>

\* The dialog opens or closes (onOpenChange); a closed dialog's content is
\* unmounted.
SetIsAddingItems(open) ==
  /\ currentView = "view-project"
  /\ IsSome(selectedProject)
  /\ pvIsAddingItems # open
  /\ pvIsAddingItems' = open
  /\ adSelectedItems' = <<>>
  /\ adSearchTerm' = EmptyStr
  /\ UNCHANGED written
  /\ lastOp' = Op("setIsAddingItems", TRUE, {}, <<>>)
  /\ UNCHANGED <<currentView, selectedTypeId, selectedProject, collections,
                 now, tcTypeName, tcFields, icErrors, pcErrors,
                 ilSelectedItems, pvSelectedItems,
                 ilSearchTerm, pvSearchTerm>>

\* A Set keeps insertion order: delete removes the id, add appends it.
ToggleInOrder(selected, itemId) ==
  IF Includes(selected, itemId)
  THEN LET Keep(id) == id # itemId IN SelectSeq(selected, Keep)
  ELSE Append(selected, itemId)

\* AddItemsDialog.toggleItemSelection on a listed available item
ADToggleItemSelection(itemId) ==
  /\ currentView = "view-project"
  /\ IsSome(selectedProject)
  /\ pvIsAddingItems
  /\ itemId \in ItemIdsOf(ADfilteredItems(
                             availableItems(Get(selectedProject), items),
                             adSearchTerm))
  /\ adSelectedItems' = ToggleInOrder(adSelectedItems, itemId)
  /\ UNCHANGED written
  /\ lastOp' = Op("toggleItemSelection", TRUE, {}, <<>>)
  /\ UNCHANGED <<currentView, selectedTypeId, selectedProject, collections,
                 now, tcTypeName, tcFields, icErrors, pcErrors,
                 ilSelectedItems, pvSelectedItems, pvIsAddingItems,
                 ilSearchTerm, pvSearchTerm, adSearchTerm>>

\* addItemsToProject(itemIds); closing the dialog unmounts its content, the
\* search box included.
addItemsToProject(itemIds) ==
  /\ handleUpdateProject(AddItemIds(Get(selectedProject), itemIds, now))
  /\ pvIsAddingItems' = FALSE
  /\ adSearchTerm' = EmptyStr

\* The dialog's onAddItems prop: addItemsToProject called with an id array.
onAddItems(itemIds) ==
  /\ currentView = "view-project"
  /\ IsSome(selectedProject)
  /\ addItemsToProject(itemIds)
  /\ UNCHANGED written
  /\ lastOp' = OpOn("addItems", TRUE, Range(itemIds), itemIds, projects)
  /\ UNCHANGED <<currentView, selectedTypeId, itemTypes, items, now,
                 tcTypeName, tcFields, icErrors, pcErrors, ilSelectedItems,
                 pvSelectedItems,
                 ilSearchTerm, pvSearchTerm>>

\* AddItemsDialog.handleAddItems: onAddItems(Array.from(selectedItems)); the
\* button is disabled while nothing is selected.
handleAddItems ==
  /\ pvIsAddingItems
  /\ adSelectedItems # <<>>
  /\ onAddItems(adSelectedItems)
  /\ adSelectedItems' = <<>>

----------------------------------------------------------------------------
\* The project specification: one item type is registered; items and projects
\* are created, projects are viewed and edited, items and projects deleted.

Field0 ==
  [id |-> MakeId("field", 0), name |-> <<"N">>, type |-> "text",
   required |-> FALSE, options |-> None]

Type0 ==
  [id |-> MakeId("type", 0), name |-> <<"T">>, fields |-> <<Field0>>,
   createdAt |-> toISOString(0)]

EmptyData == <<>>

ProjectForm0 ==
  [name |-> <<"P">>, description |-> EmptyStr, location |-> <<"L">>]

InitCommon ==
  /\ currentView = "home"
  /\ selectedTypeId = None
  /\ selectedProject = None
  /\ items = <<>>
  /\ projects = <<>>
  /\ now = 0
  /\ tcTypeName = EmptyStr
  /\ tcFields = <<>>
  /\ icErrors = <<>>
  /\ pcErrors = <<>>
  /\ ilSelectedItems = {}
  /\ pvSelectedItems = {}
  /\ pvIsAddingItems = FALSE
  /\ adSelectedItems = <<>>
  /\ ilSearchTerm = EmptyStr
  /\ pvSearchTerm = EmptyStr
  /\ adSearchTerm = EmptyStr
  /\ written = None
  /\ lastOp = NoOp

Init == InitCommon /\ itemTypes = <<Type0>>

Next ==
  \/ BackToHome
  \/ \E view \in {"create-project", "view-projects", "view-items"} :
       HomeCard(view)
  \/ ProjectListCreateNew
  \/ ProjectViewBack
  \/ Tick
  \/ Len(items) < MaxItems /\ handleCreateItem(Type0.id)
  \/ ItemCreatorHandleSave(EmptyData, now)
  \/ \E id \in ItemIdsOf(items) : ILToggleItemSelection(id)
  \/ handleDeleteSelected
  \/ Len(projects) < MaxProjects /\ ProjectCreatorHandleSave(ProjectForm0, now, now)
  \/ \E i \in DOMAIN projects : handleViewProject(i)
  \/ \E i \in DOMAIN projects : handleDeleteProject(projects[i].id)
  \/ \E id \in ItemIdsOf(items) : PVToggleItemSelection(id)
  \/ removeSelectedItems
  \/ \E open \in BOOLEAN : SetIsAddingItems(open)
  \/ \E id \in ItemIdsOf(items) : ADToggleItemSelection(id)
  \/ handleAddItems

Spec == Init /\ [][Next]_vars

----------------------------------------------------------------------------
\* The membership specification: one item and one project exist, the project
\* is open in the project view, and the dialog's onAddItems prop is called
\* with every id array, whatever the dialog would have offered.

Item0 == [id |-> MakeId("item", 0), typeId |-> Type0.id, typeName |-> Type0.name,
          data |-> EmptyData, createdAt |-> toISOString(0)]

Project0 ==
  [id |-> MakeId("project", 0), name |-> <<"P">>, description |-> EmptyStr,
   location |-> <<"L">>, itemIds |-> <<>>, createdAt |-> toISOString(0),
   updatedAt |-> toISOString(0)]

AddIdInputs == {MakeId("item", t) : t \in 0..MaxTime}

SeqsUpTo(S, n) == UNION {[1..k -> S] : k \in 0..n}

InitAddItems ==
  /\ currentView = "view-project"
  /\ selectedTypeId = Some(Type0.id)
  /\ selectedProject = Some(Project0)
  /\ itemTypes = <<Type0>>
  /\ items = <<Item0>>
  /\ projects = <<Project0>>
  /\ now = 0
  /\ tcTypeName = EmptyStr
  /\ tcFields = <<>>
  /\ icErrors = <<>>
  /\ pcErrors = <<>>
  /\ ilSelectedItems = {}
  /\ pvSelectedItems = {}
  /\ pvIsAddingItems = FALSE
  /\ adSelectedItems = <<>>
  /\ ilSearchTerm = EmptyStr
  /\ pvSearchTerm = EmptyStr
  /\ adSearchTerm = EmptyStr
  /\ written = None
  /\ lastOp = NoOp

NextAddItems ==
  \/ Tick
  \/ \E itemIds \in SeqsUpTo(AddIdInputs, MaxAddLen) :
       /\ Len(Get(selectedProject).itemIds) + Len(itemIds) <= MaxMembers
       /\ onAddItems(itemIds)
       /\ UNCHANGED adSelectedItems
  \/ \E id \in ItemIdsOf(items) : PVToggleItemSelection(id)
  \/ removeSelectedItems

SpecAddItems == InitAddItems /\ [][NextAddItems]_vars

----------------------------------------------------------------------------
\* The type specification: types are drafted (fields added and removed as
\* the clock runs) and saved.

InitTypes == InitCommon /\ itemTypes = <<>>

TypeNameInputs == {EmptyStr, <<"T">>}
FieldNameInputs == {EmptyStr, <<"N">>}
FieldTypes == {"text", "number", "date", "select"}

DraftIds == {tcFields[i].id : i \in DOMAIN tcFields}

NextTypes ==
  \/ Len(itemTypes) < MaxTypes /\ HomeCard("create-type")
  \/ BackToHome
  \/ Tick
  \/ \E value \in TypeNameInputs : setTypeName(value)
  \/ \E name \in FieldNameInputs, required \in BOOLEAN :
       /\ Len(tcFields) < MaxFields
       /\ addField(name, "text", required, EmptyStr)
  \/ \E id \in DraftIds : removeField(id)
  \/ TypeCreatorHandleSave(now)

SpecTypes == InitTypes /\ [][NextTypes]_vars

\* The options specification: fields of every kind are drafted with every raw
\* option input and saved; the clock stands still.

OptionInputs ==
  {EmptyStr, <<",">>, <<" ", ",", " ">>, <<"a">>, <<" ", "a", " ">>,
   <<"a", ",", "b">>, <<"a", ",", ",", "b">>, <<"a", " ", "b">>}

NextOptions ==
  \/ Len(itemTypes) < MaxTypes /\ HomeCard("create-type")
  \/ BackToHome
  \/ \E value \in TypeNameInputs : setTypeName(value)
  \/ \E type \in FieldTypes, required \in BOOLEAN,
          selectOptions \in OptionInputs :
       /\ Len(tcFields) < MaxOptFields
       /\ addField(<<"N">>, type, required, selectOptions)
  \/ \E id \in DraftIds : removeField(id)
  \/ TypeCreatorHandleSave(now)

SpecOptions == InitTypes /\ [][NextOptions]_vars

----------------------------------------------------------------------------
\* The item specification: the registry holds one type, any draft of up to
\* MaxFields text fields saved at time MaxTime; items are created against it
\* with every form content.

\* Field names by position.
PositionNames == <<"a", "b", "c", "d", "e", "f">>

NonDecreasing(ts) == \A i, j \in DOMAIN ts : i <= j => ts[i] <= ts[j]

FieldSeqInputs ==
  UNION {
    {[i \in 1..k |->
        [id |-> MakeId("field", ts[i]), name |-> <<PositionNames[i]>>,
         type |-> "text", required |-> req[i], options |-> None]] :
       ts \in {x \in [1..k -> 0..MaxTime] : NonDecreasing(x)},
       req \in [1..k -> BOOLEAN]} :
    k \in 1..MaxFields}

TypeWith(fields) ==
  [id |-> MakeId("type", MaxTime), name |-> <<"T">>, fields |-> fields,
   createdAt |-> toISOString(MaxTime)]

ValueInputs == {EmptyStr, <<"v">>}

\* Every form content: a value for some of the type's field ids.
DataInputs(itemType) ==
  UNION {[D -> ValueInputs] :
           D \in SUBSET {itemType.fields[i].id : i \in DOMAIN itemType.fields}}

InitItems ==
  /\ currentView = "home"
  /\ selectedTypeId = None
  /\ selectedProject = None
  /\ itemTypes \in {<<TypeWith(fields)>> : fields \in FieldSeqInputs}
  /\ items = <<>>
  /\ projects = <<>>
  /\ now = MaxTime
  /\ tcTypeName = EmptyStr
  /\ tcFields = <<>>
  /\ icErrors = <<>>
  /\ pcErrors = <<>>
  /\ ilSelectedItems = {}
  /\ pvSelectedItems = {}
  /\ pvIsAddingItems = FALSE
  /\ adSelectedItems = <<>>
  /\ ilSearchTerm = EmptyStr
  /\ pvSearchTerm = EmptyStr
  /\ adSearchTerm = EmptyStr
  /\ written = None
  /\ lastOp = NoOp

NextItems ==
  \/ BackToHome
  \/ HomeCard("view-items")
  \/ \E i \in DOMAIN itemTypes :
       Len(items) < MaxSavedItems /\ handleCreateItem(itemTypes[i].id)
  \/ /\ IsSome(selectedItemType)
     /\ \E formData \in DataInputs(Get(selectedItemType)) :
          ItemCreatorHandleSave(formData, now)

SpecItems == InitItems /\ [][NextItems]_vars

\* The create specification: from the fresh application, types, items and
\* projects are created, with valid and with invalid forms.

ProjectFormInputs ==
  [name : {EmptyStr, <<" ">>, <<"P">>},
   description : {EmptyStr},
   location : {EmptyStr, <<"L">>}]

Stored == Len(itemTypes) + Len(items) + Len(projects)

NextCreate ==
  \/ BackToHome
  \/ \E view \in {"create-project", "create-type"} :
       Stored < MaxCreates /\ HomeCard(view)
  \/ Tick
  \/ \E value \in TypeNameInputs : setTypeName(value)
  \/ Len(tcFields) < MaxFields /\ addField(<<"N">>, "text", TRUE, EmptyStr)
  \/ \E id \in DraftIds : removeField(id)
  \/ TypeCreatorHandleSave(now)
  \/ \E i \in DOMAIN itemTypes :
       Stored < MaxCreates /\ handleCreateItem(itemTypes[i].id)
  \/ /\ IsSome(selectedItemType)
     /\ \E formData \in DataInputs(Get(selectedItemType)) :
          ItemCreatorHandleSave(formData, now)
  \/ \E formData \in ProjectFormInputs :
       ProjectCreatorHandleSave(formData, now, now)

SpecCreate == InitTypes /\ [][NextCreate]_vars

\* The project form specification: projects are created with every form
\* content, the clock free to move between the handler's two new Date()
\* reads, and deleted again.

ProjectFormWide ==
  [name : {EmptyStr, <<" ">>, <<"P">>, <<" ", "P">>},
   description : {EmptyStr, <<"D">>},
   location : {EmptyStr, <<" ">>, <<"L">>}]

NextProjectForm ==
  \/ BackToHome
  \/ \E view \in {"create-project", "view-projects"} : HomeCard(view)
  \/ ProjectListCreateNew
  \/ Tick
  \/ \E formData \in ProjectFormWide, tc \in 0..MaxTime, tu \in 0..MaxTime :
       /\ Len(projects) < MaxProjects
       /\ ProjectCreatorHandleSave(formData, tc, tu)
  \/ \E i \in DOMAIN projects : handleDeleteProject(projects[i].id)

SpecProjectForm == InitTypes /\ [][NextProjectForm]_vars

----------------------------------------------------------------------------
\* The search specification: the application holds two types and up to
\* MaxSearchItems items with every form content; the first item belongs to the
\* one project.  The item list, the project view and the add-items dialog are
\* opened and searched.

AcmeCorp == <<"A", "c", "m", "e", " ", "C", "o", "r", "p">>

WidgetType ==
  [id |-> MakeId("type", 0), name |-> <<"W", "i", "d", "g", "e", "t">>,
   fields |-> <<[id |-> MakeId("field", 0), name |-> <<"N">>, type |-> "text",
                 required |-> FALSE, options |-> None],
                [id |-> MakeId("field", 1), name |-> <<"Q">>, type |-> "number",
                 required |-> FALSE, options |-> None]>>,
   createdAt |-> toISOString(0)]

ToolType ==
  [id |-> MakeId("type", 1), name |-> <<"T", "o", "o", "l">>,
   fields |-> <<[id |-> MakeId("field", 2), name |-> <<"N">>, type |-> "text",
                 required |-> FALSE, options |-> None]>>,
   createdAt |-> toISOString(0)]

\* What the form's input of a field is filled with, when it is filled.
SearchValueOf(field) ==
  IF field.type = "number" THEN <<"4", "2">> ELSE AcmeCorp

\* Every item of the given type with some of its inputs filled, stored with
\* id n.
SearchItemInputs(type, n) ==
  {[id |-> MakeId("item", n), typeId |-> type.id, typeName |-> type.name,
    data |-> [id \in {type.fields[i].id : i \in D} |->
                SearchValueOf(type.fields[CHOOSE i \in D : type.fields[i].id = id])],
    createdAt |-> toISOString(0)] :
     D \in SUBSET DOMAIN type.fields}

SearchItemSeqs ==
  UNION {
    {its \in [1..k -> UNION {SearchItemInputs(type, n) :
                               type \in {WidgetType, ToolType}, n \in 1..k}] :
       \A i \in 1..k : its[i].id = MakeId("item", i)} :
    k \in 1..MaxSearchItems}

QueryInputs ==
  {EmptyStr,
   <<"a", "c", "m", "e">>,
   <<"C", "O", "R", "P">>,
   <<"a", "c", "m", "e", " ", "w", "i", "d", "g", "e", "t">>,
   <<"W", "I", "D">>,
   <<"e", " ", "c">>,
   <<"2">>}

SearchProject(its) ==
  [id |-> MakeId("project", 0), name |-> <<"P">>, description |-> EmptyStr,
   location |-> <<"L">>, itemIds |-> <<its[1].id>>,
   createdAt |-> toISOString(0), updatedAt |-> toISOString(0)]

InitSearch ==
  /\ currentView = "home"
  /\ selectedTypeId = None
  /\ selectedProject = None
  /\ itemTypes = <<WidgetType, ToolType>>
  /\ items \in SearchItemSeqs
  /\ projects = <<SearchProject(items)>>
  /\ now = 0
  /\ tcTypeName = EmptyStr
  /\ tcFields = <<>>
  /\ icErrors = <<>>
  /\ pcErrors = <<>>
  /\ ilSelectedItems = {}
  /\ pvSelectedItems = {}
  /\ pvIsAddingItems = FALSE
  /\ adSelectedItems = <<>>
  /\ ilSearchTerm = EmptyStr
  /\ pvSearchTerm = EmptyStr
  /\ adSearchTerm = EmptyStr
  /\ written = None
  /\ lastOp = NoOp

NextSearch ==
  \/ BackToHome
  \/ \E view \in {"view-items", "view-projects"} : HomeCard(view)
  \/ \E i \in DOMAIN projects : handleViewProject(i)
  \/ ProjectViewBack
  \/ \E open \in BOOLEAN : SetIsAddingItems(open)
  \/ \E value \in QueryInputs : ILSetSearchTerm(value)
  \/ \E value \in QueryInputs : PVSetSearchTerm(value)
  \/ \E value \in QueryInputs : ADSetSearchTerm(value)

SpecSearch == InitSearch /\ [][NextSearch]_vars

----------------------------------------------------------------------------
\* The export specification: the registry holds five types (a plain name, a
\* name that reads as an integer, a name of 40 characters and two names of 32
\* characters that agree on the first 31); up to MaxExportItems items of these
\* types are stored.  Either the item list is open, items are selected and
\* exported, or the project view is open on a project and the project is
\* exported.  ProjectView filters the project's itemIds against allItems, so
\* it is also given ids that allItems lacks.

ExportField(n, name, kind) ==
  [id |-> MakeId("field", n), name |-> name, type |-> kind,
   required |-> FALSE, options |-> None]

ExportType(n, name, fields) ==
  [id |-> MakeId("type", n), name |-> name, fields |-> fields,
   createdAt |-> toISOString(0)]

DatedType ==
  ExportType(0, <<"b">>,
             <<ExportField(0, <<"N", "a", "m", "e">>, "text"),
               ExportField(1, <<"W", "h", "e", "n">>, "date")>>)

NumberNamedType == ExportType(1, <<"1">>, <<ExportField(2, <<"N">>, "text")>>)

LongNamedType ==
  ExportType(2, [i \in 1..40 |-> "x"], <<ExportField(3, <<"N">>, "text")>>)

TwinTypeA ==
  ExportType(3, [i \in 1..32 |-> IF i = 32 THEN "a" ELSE "y"],
             <<ExportField(4, <<"N">>, "text")>>)

TwinTypeB ==
  ExportType(4, [i \in 1..32 |-> IF i = 32 THEN "b" ELSE "y"],
             <<ExportField(5, <<"N">>, "text")>>)

ExportTypes ==
  <<DatedType, NumberNamedType, LongNamedType, TwinTypeA, TwinTypeB>>

\* The value of a date input.
DateValue == <<"2", "0", "2", "4", "-", "0", "1", "-", "1", "5">>

\* What the form of the type was saved with.
ExportDataInputs(type) ==
  IF type = DatedType
  THEN {(MakeId("field", 0) :> <<"v">>),
        (MakeId("field", 0) :> <<"v">>) @@ (MakeId("field", 1) :> EmptyStr),
        (MakeId("field", 0) :> <<"v">>) @@ (MakeId("field", 1) :> DateValue)}
  ELSE {EmptyData}

ExportItemInputs(n) ==
  UNION {{[id |-> MakeId("item", n), typeId |-> ExportTypes[k].id,
           typeName |-> ExportTypes[k].name, data |-> data,
           createdAt |-> toISOString(0)] :
            data \in ExportDataInputs(ExportTypes[k])} :
         k \in DOMAIN ExportTypes}

ExportItemSeqs ==
  UNION {
    {its \in [1..k -> UNION {ExportItemInputs(n) : n \in 1..k}] :
       \A i \in 1..k : its[i].id = MakeId("item", i)} :
    k \in 1..MaxExportItems}

\* The itemIds of the exported project: none, only an id that no item has,
\* the first item, or every item and an id that no item has.
ExportMemberInputs(its) ==
  {<<>>, <<MakeId("item", 0)>>, <<its[1].id>>,
   [i \in DOMAIN its |-> its[i].id] \o <<MakeId("item", 0)>>}

ExportProjectInputs(its) ==
  {[id |-> MakeId("project", 0), name |-> <<"P", " ", "1">>,
    description |-> EmptyStr, location |-> <<"L">>, itemIds |-> itemIds,
    createdAt |-> toISOString(0), updatedAt |-> toISOString(0)] :
     itemIds \in ExportMemberInputs(its)}

InitExport ==
  /\ selectedTypeId = None
  /\ itemTypes = ExportTypes
  /\ items \in ExportItemSeqs
  /\ \/ /\ currentView = "view-items"
        /\ projects = <<>>
        /\ selectedProject = None
     \/ /\ currentView = "view-project"
        /\ \E project \in ExportProjectInputs(items) :
             /\ projects = <<project>>
             /\ selectedProject = Some(project)
  /\ now = 0
  /\ tcTypeName = EmptyStr
  /\ tcFields = <<>>
  /\ icErrors = <<>>
  /\ pcErrors = <<>>
  /\ ilSelectedItems = {}
  /\ pvSelectedItems = {}
  /\ pvIsAddingItems = FALSE
  /\ adSelectedItems = <<>>
  /\ ilSearchTerm = EmptyStr
  /\ pvSearchTerm = EmptyStr
  /\ adSearchTerm = EmptyStr
  /\ written = None
  /\ lastOp = NoOp

NextExport ==
  \/ \E id \in ItemIdsOf(items) : ILToggleItemSelection(id)
  \/ exportToExcel
  \/ exportProject

SpecExport == InitExport /\ [][NextExport]_vars

----------------------------------------------------------------------------
\* The type lookup specification: the registry holds two types of the same
\* name with different fields; up to MaxExportItems items are stored, each
\* created against the first type, against the second, or carrying a type
\* name the registry does not hold (items and item types reach the export
\* handlers as separate props, and the handlers skip a group without type).
\* Items are selected and exported, or the project of all items is exported.

FirstNamesake ==
  ExportType(0, <<"T">>, <<ExportField(0, <<"A">>, "text"),
                           ExportField(1, <<"B">>, "text")>>)

SecondNamesake == ExportType(1, <<"T">>, <<ExportField(2, <<"C">>, "text")>>)

ResolveItemInputs(n) ==
  {[id |-> MakeId("item", n), typeId |-> FirstNamesake.id,
    typeName |-> FirstNamesake.name,
    data |-> (MakeId("field", 0) :> <<"v">>), createdAt |-> toISOString(0)],
   [id |-> MakeId("item", n), typeId |-> SecondNamesake.id,
    typeName |-> SecondNamesake.name,
    data |-> (MakeId("field", 2) :> <<"w">>), createdAt |-> toISOString(0)],
   [id |-> MakeId("item", n), typeId |-> MakeId("type", 9),
    typeName |-> <<"G">>,
    data |-> (MakeId("field", 9) :> <<"z">>), createdAt |-> toISOString(0)]}

ResolveItemSeqs ==
  UNION {
    {its \in [1..k -> UNION {ResolveItemInputs(n) : n \in 1..k}] :
       \A i \in 1..k : its[i].id = MakeId("item", i)} :
    k \in 1..MaxExportItems}

ResolveProject(its) ==
  [id |-> MakeId("project", 0), name |-> <<"P">>, description |-> EmptyStr,
   location |-> <<"L">>, itemIds |-> [i \in DOMAIN its |-> its[i].id],
   createdAt |-> toISOString(0), updatedAt |-> toISOString(0)]

InitResolve ==
  /\ selectedTypeId = None
  /\ itemTypes = <<FirstNamesake, SecondNamesake>>
  /\ items \in ResolveItemSeqs
  /\ projects = <<ResolveProject(items)>>
  /\ \/ currentView = "view-items" /\ selectedProject = None
     \/ currentView = "view-project" /\ selectedProject = Some(projects[1])
  /\ now = 0
  /\ tcTypeName = EmptyStr
  /\ tcFields = <<>>
  /\ icErrors = <<>>
  /\ pcErrors = <<>>
  /\ ilSelectedItems = {}
  /\ pvSelectedItems = {}
  /\ pvIsAddingItems = FALSE
  /\ adSelectedItems = <<>>
  /\ ilSearchTerm = EmptyStr
  /\ pvSearchTerm = EmptyStr
  /\ adSearchTerm = EmptyStr
  /\ written = None
  /\ lastOp = NoOp

NextResolve ==
  \/ \E id \in ItemIdsOf(items) : ILToggleItemSelection(id)
  \/ exportToExcel
  \/ exportProject

SpecResolve == InitResolve /\ [][NextResolve]_vars

----------------------------------------------------------------------------
\* The project list specification: one type and one item are stored; projects
\* are created under two names as the clock runs, viewed, given the item,
\* relieved of it, and deleted.

NamedFormInputs ==
  [name : {<<"P">>, <<"Q">>}, description : {EmptyStr}, location : {<<"L">>}]

InitProjectList ==
  /\ currentView = "home"
  /\ selectedTypeId = None
  /\ selectedProject = None
  /\ itemTypes = <<Type0>>
  /\ items = <<Item0>>
  /\ projects = <<>>
  /\ now = 0
  /\ tcTypeName = EmptyStr
  /\ tcFields = <<>>
  /\ icErrors = <<>>
  /\ pcErrors = <<>>
  /\ ilSelectedItems = {}
  /\ pvSelectedItems = {}
  /\ pvIsAddingItems = FALSE
  /\ adSelectedItems = <<>>
  /\ ilSearchTerm = EmptyStr
  /\ pvSearchTerm = EmptyStr
  /\ adSearchTerm = EmptyStr
  /\ written = None
  /\ lastOp = NoOp

NextProjectList ==
  \/ BackToHome
  \/ \E view \in {"create-project", "view-projects"} : HomeCard(view)
  \/ ProjectListCreateNew
  \/ ProjectViewBack
  \/ Tick
  \/ \E formData \in NamedFormInputs :
       /\ Len(projects) < MaxListedProjects
       /\ ProjectCreatorHandleSave(formData, now, now)
  \/ \E i \in DOMAIN projects : handleViewProject(i)
  \/ \E i \in DOMAIN projects : handleDeleteProject(projects[i].id)
  \/ \E id \in ItemIdsOf(items) : PVToggleItemSelection(id)
  \/ removeSelectedItems
  \/ \E open \in BOOLEAN : SetIsAddingItems(open)
  \/ \E id \in ItemIdsOf(items) : ADToggleItemSelection(id)
  \/ handleAddItems

SpecProjectList == InitProjectList /\ [][NextProjectList]_vars
----------------------------------------------------------------------------

\* The item-deletion specification: the item list is shown over a stored
\* sequence of items (ids in creation order, two items created in the same
\* millisecond sharing one), a project lists the first of them, and the
\* list's onDeleteItems prop is called with any ids, known or not.
StoredItem(t) ==
  [Item0 EXCEPT !.id = MakeId("item", t), !.createdAt = toISOString(t)]

StoredItemSeqs ==
  {[i \in DOMAIN ts |-> StoredItem(ts[i])] :
     ts \in {s \in SeqsUpTo(0..MaxTime, MaxStoredItems) : NonDecreasing(s)}}

\* An id no stored item has.
UnknownId == MakeId("item", MaxTime + 1)

DeleteIdInputs == SUBSET (AddIdInputs \cup {UnknownId})

StoredProject(its) ==
  [Project0 EXCEPT !.itemIds = IF its = <<>> THEN <<>> ELSE <<its[1].id>>]

InitDeleteItems ==
  /\ currentView = "view-items"
  /\ selectedTypeId = None
  /\ selectedProject = None
  /\ itemTypes = <<Type0>>
  /\ items \in StoredItemSeqs
  /\ projects = <<StoredProject(items)>>
  /\ now = MaxTime
  /\ tcTypeName = EmptyStr
  /\ tcFields = <<>>
  /\ icErrors = <<>>
  /\ pcErrors = <<>>
  /\ ilSelectedItems = {}
  /\ pvSelectedItems = {}
  /\ pvIsAddingItems = FALSE
  /\ adSelectedItems = <<>>
  /\ ilSearchTerm = EmptyStr
  /\ pvSearchTerm = EmptyStr
  /\ adSearchTerm = EmptyStr
  /\ written = None
  /\ lastOp = NoOp

NextDeleteItems ==
  \/ \E itemIds \in DeleteIdInputs : onDeleteItems(itemIds)
  \/ \E id \in ItemIdsOf(items) : ILToggleItemSelection(id)
  \/ handleDeleteSelected

SpecDeleteItems == InitDeleteItems /\ [][NextDeleteItems]_vars

----------------------------------------------------------------------------
\* The inventory specification: from the fresh application, types are
\* registered under an ordinary name or under a name every object inherits,
\* items of them are created, selected in the item list, exported and
\* deleted.

InventoryTypeNames ==
  {<<"T">>, <<"c", "o", "n", "s", "t", "r", "u", "c", "t", "o", "r">>}

NextInventory ==
  \/ BackToHome
  \/ Len(itemTypes) < MaxInventoryTypes /\ HomeCard("create-type")
  \/ HomeCard("view-items")
  \/ Tick
  \/ \E value \in InventoryTypeNames : setTypeName(value)
  \/ Len(tcFields) < MaxOptFields /\ addField(<<"N">>, "text", FALSE, EmptyStr)
  \/ TypeCreatorHandleSave(now)
  \/ \E i \in DOMAIN itemTypes :
       Len(items) < MaxItems /\ handleCreateItem(itemTypes[i].id)
  \/ /\ IsSome(selectedItemType)
     /\ \E formData \in DataInputs(Get(selectedItemType)) :
          ItemCreatorHandleSave(formData, now)
  \/ \E id \in ItemIdsOf(items) : ILToggleItemSelection(id)
  \/ handleDeleteSelected
  \/ exportToExcel

SpecInventory == InitTypes /\ [][NextInventory]_vars

----------------------------------------------------------------------------
\* The selection specification: the stored items of the search specification,
\* all of them members of the one project; the item list and the project view
\* are searched, and items are selected one by one and with "select all".

SelectProject(its) ==
  [SearchProject(its) EXCEPT !.itemIds = [i \in DOMAIN its |-> its[i].id]]

InitSelect ==
  /\ currentView = "home"
  /\ selectedTypeId = None
  /\ selectedProject = None
  /\ itemTypes = <<WidgetType, ToolType>>
  /\ items \in SearchItemSeqs
  /\ projects = <<SelectProject(items)>>
  /\ now = 0
  /\ tcTypeName = EmptyStr
  /\ tcFields = <<>>
  /\ icErrors = <<>>
  /\ pcErrors = <<>>
  /\ ilSelectedItems = {}
  /\ pvSelectedItems = {}
  /\ pvIsAddingItems = FALSE
  /\ adSelectedItems = <<>>
  /\ ilSearchTerm = EmptyStr
  /\ pvSearchTerm = EmptyStr
  /\ adSearchTerm = EmptyStr
  /\ written = None
  /\ lastOp = NoOp

NextSelect ==
  \/ BackToHome
  \/ \E view \in {"view-items", "view-projects"} : HomeCard(view)
  \/ \E i \in DOMAIN projects : handleViewProject(i)
  \/ ProjectViewBack
  \/ \E value \in QueryInputs : ILSetSearchTerm(value)
  \/ \E value \in QueryInputs : PVSetSearchTerm(value)
  \/ \E id \in ItemIdsOf(items) : ILToggleItemSelection(id)
  \/ \E id \in ItemIdsOf(items) : PVToggleItemSelection(id)
  \/ ILToggleSelectAll
  \/ PVToggleSelectAll

SpecSelect == InitSelect /\ [][NextSelect]_vars

----------------------------------------------------------------------------
\* Properties.

\* s without the elements of D, in order.
RECURSIVE Without(_, _)
Without(s, D) ==
  IF s = <<>> THEN <<>>
  ELSE IF Head(s) \in D THEN Without(Tail(s), D)
       ELSE <<Head(s)>> \o Without(Tail(s), D)

Distinct(s) == \A i, j \in DOMAIN s : s[i] = s[j] => i = j

\* The projects the last handler rewrote, by position.
Rewritten == DOMAIN lastOp.prev \cap DOMAIN projects

\* Project i's itemIds differ from what they were before the last handler.
Mutated(i) == projects[i].itemIds # lastOp.prev[i].itemIds

\* The project an add or a remove was applied to.
IsTarget(i) == IsSome(selectedProject) /\ projects[i].id = Get(selectedProject).id

\* C1: addItems has set semantics: the resulting itemIds is the previous
\* itemIds followed by only those given ids that were not members already.
C1_AddItemsSetSemantics ==
  lastOp.op = "addItems" =>
    \A i \in Rewritten :
      IsTarget(i) =>
        projects[i].itemIds =
          lastOp.prev[i].itemIds
            \o Without(lastOp.seq, Range(lastOp.prev[i].itemIds))

C3_CascadeTouchesOnlyChanged ==
  lastOp.op = "deleteItems" =>
    \A i \in Rewritten :
      Range(lastOp.prev[i].itemIds) \cap lastOp.ids = {}
        => projects[i] = lastOp.prev[i]

\* C4: no project lists an item id that is absent from the items.
C4_NoDanglingMember ==
  \A i \in DOMAIN projects :
    Range(projects[i].itemIds) \subseteq ItemIdsOf(items)

\* C4's case: a delete removed an item that a project listed.
C4_Witness ==
  /\ lastOp.op = "deleteItems"
  /\ \E i \in DOMAIN lastOp.prev :
       Range(lastOp.prev[i].itemIds) \cap lastOp.ids # {}

\* C5 as claimed: every mutation of a project's itemIds leaves its updatedAt
\* strictly greater than before.
C5_UpdatedAtStrictlyGreater ==
  lastOp.op \in {"addItems", "removeItems", "deleteItems"} =>
    \A i \in Rewritten :
      Mutated(i) => IsoLess(lastOp.prev[i].updatedAt, projects[i].updatedAt)

\* C5 as amended: every mutation of a project's itemIds sets its updatedAt to
\* the clock reading of the mutation, which is never before the previous
\* value and is after it whenever the clock has moved past that value.
C5_UpdatedAtIsNow ==
  lastOp.op \in {"addItems", "removeItems", "deleteItems"} =>
    \A i \in Rewritten :
      Mutated(i) =>
        /\ projects[i].updatedAt = toISOString(now)
        /\ ~IsoLess(projects[i].updatedAt, lastOp.prev[i].updatedAt)
        /\ IsoLess(lastOp.prev[i].updatedAt, toISOString(now))
             => IsoLess(lastOp.prev[i].updatedAt, projects[i].updatedAt)

\* C5's case: a remove moved the project's updatedAt forward.
C5_Witness ==
  /\ lastOp.op = "removeItems"
  /\ \E i \in Rewritten :
       /\ Mutated(i)
       /\ IsoLess(lastOp.prev[i].updatedAt, projects[i].updatedAt)

\* C8: within each collection the ids are pairwise distinct.
C8_IdsDistinct ==
  /\ Distinct([i \in DOMAIN items |-> items[i].id])
  /\ Distinct([i \in DOMAIN itemTypes |-> itemTypes[i].id])
  /\ Distinct([i \in DOMAIN projects |-> projects[i].id])

FieldIdsOf(type) == [i \in DOMAIN type.fields |-> type.fields[i].id]

\* C9: within every saved item type the field ids are pairwise distinct.
C9_FieldIdsDistinct ==
  \A i \in DOMAIN itemTypes : Distinct(FieldIdsOf(itemTypes[i]))

\* C10: for every field of every registered type, options is present and
\* non-empty if and only if the field's kind is select.
C10_OptionsIffSelect ==
  \A i \in DOMAIN itemTypes :
    \A k \in DOMAIN itemTypes[i].fields :
      LET field == itemTypes[i].fields[k]
      IN (IsSome(field.options) /\ Get(field.options) # <<>>)
           <=> field.type = "select"

\* The ids of the type's required fields that data leaves missing or empty.
RequiredBlank(type, data) ==
  {type.fields[i].id :
     i \in {k \in DOMAIN type.fields :
              /\ type.fields[k].required
              /\ \/ type.fields[k].id \notin DOMAIN data
                 \/ data[type.fields[k].id] = <<>>}}

\* C6: item creation reports exactly the required fields whose value is
\* missing or empty, all of them, and creates the item iff there is none.
C6_ValidationComplete ==
  [][lastOp'.op = "createItem" =>
       LET type == Get(selectedItemType)
           data == lastOp'.seq[1]
           blank == RequiredBlank(type, data)
       IN /\ lastOp'.ids = blank
          /\ blank # {} => (DOMAIN icErrors' = blank /\ items' = items)
          /\ blank = {} =>
               /\ Len(items') = Len(items) + 1
               /\ SubSeq(items', 1, Len(items)) = items
               /\ items'[Len(items')].data = data
               /\ items'[Len(items')].typeId = type.id]_vars

\* C6's case: a create with no value supplied named two required fields.
C6_Witness ==
  /\ lastOp.op = "createItem"
  /\ lastOp.seq = <<EmptyData>>
  /\ Cardinality(lastOp.ids) = 2
  /\ DOMAIN icErrors = lastOp.ids
  /\ items = <<>>

\* The create handler that just ran was given an invalid form.
FailedCreate ==
  \/ /\ lastOp'.op = "createType"
     /\ (tcTypeName = <<>> \/ tcFields = <<>>)
  \/ /\ lastOp'.op = "createItem"
     /\ RequiredBlank(Get(selectedItemType), lastOp'.seq[1]) # {}
  \/ /\ lastOp'.op = "createProject"
     /\ \/ Trim(lastOp'.seq[1].name) = <<>>
        \/ Trim(lastOp'.seq[1].location) = <<>>

\* C7: a create that fails validation leaves the item types, the items and
\* the projects exactly as they were.
C7_FailedCreateChangesNothing ==
  [][FailedCreate => UNCHANGED collections]_vars

\* C7's case: with a type stored, an item create was rejected for a blank
\* required field.
C7_Witness ==
  /\ lastOp.op = "createItem"
  /\ ~lastOp.ok
  /\ lastOp.ids # {}
  /\ itemTypes # <<>>
  /\ items = <<>>

\* Every registered type has a name and a field.
RegistryWellFormed(types) ==
  \A i \in DOMAIN types : types[i].name # <<>> /\ types[i].fields # <<>>

\* C11: createType is rejected when the drafted name is empty or the drafted
\* field sequence is empty (also after fields were added and removed again),
\* and otherwise appends the draft; so every type of the registry has a
\* non-empty name and at least one field.
C11_TypeRejectedWhenEmpty ==
  [][lastOp'.op = "createType" =>
       /\ (tcTypeName = <<>> \/ tcFields = <<>>)
            => (~lastOp'.ok /\ itemTypes' = itemTypes)
       /\ ~(tcTypeName = <<>> \/ tcFields = <<>>)
            => /\ lastOp'.ok
               /\ Len(itemTypes') = Len(itemTypes) + 1
               /\ SubSeq(itemTypes', 1, Len(itemTypes)) = itemTypes
               /\ itemTypes'[Len(itemTypes')].name = tcTypeName
               /\ itemTypes'[Len(itemTypes')].fields = tcFields
       /\ RegistryWellFormed(itemTypes')]_vars

\* C11's case: a named draft that holds no field was refused, and the
\* registry is still empty.
C11_Witness ==
  /\ lastOp.op = "createType"
  /\ ~lastOp.ok
  /\ tcTypeName # <<>>
  /\ tcFields = <<>>
  /\ itemTypes = <<>>

\* The keys of the project form that hold the empty string.
EmptyKeys(form) == {k \in {"name", "location"} : form[k] = <<>>}

\* The keys of the project form that hold nothing but whitespace.
BlankKeys(form) == {k \in {"name", "location"} : Trim(form[k]) = <<>>}

\* C12 as claimed: createProject is rejected iff the name or the location is
\* the empty string.
C12_RejectedIffEmpty ==
  [][lastOp'.op = "createProject" =>
       (~lastOp'.ok <=> EmptyKeys(lastOp'.seq[1]) # {})]_vars

\* C12 as amended: createProject is rejected iff the name or the location is
\* empty once surrounding whitespace is trimmed, whatever the description;
\* every such key is reported, both when both are, and a rejected create adds
\* no project while an accepted one appends exactly one.
C12_RejectedIffBlank ==
  [][lastOp'.op = "createProject" =>
       LET form == lastOp'.seq[1] IN
       /\ ~lastOp'.ok <=> BlankKeys(form) # {}
       /\ ~lastOp'.ok =>
            /\ lastOp'.ids = BlankKeys(form)
            /\ DOMAIN pcErrors' = BlankKeys(form)
            /\ projects' = projects
       /\ lastOp'.ok =>
            /\ Len(projects') = Len(projects) + 1
            /\ SubSeq(projects', 1, Len(projects)) = projects]_vars

\* C12's case: a form with a description and neither name nor location was
\* refused with both errors.
C12_Witness ==
  /\ lastOp.op = "createProject"
  /\ ~lastOp.ok
  /\ lastOp.seq[1].description # <<>>
  /\ DOMAIN pcErrors = {"name", "location"}
  /\ projects = <<>>

\* C13: the project a successful createProject has just appended has empty
\* itemIds and createdAt equal to updatedAt.
C13_NewProjectStamps ==
  (lastOp.op = "createProject" /\ lastOp.ok) =>
    /\ projects[Len(projects)].itemIds = <<>>
    /\ projects[Len(projects)].createdAt = projects[Len(projects)].updatedAt

\* sub is a contiguous part of s.
Contains(s, sub) ==
  \E a \in 0..Len(s), b \in 0..Len(s) : a <= b /\ SubSeq(s, a + 1, b) = sub

\* The record matches the query: the lowercased query is part of the
\* lowercased type name or of the lowercased string form of a data value.
Matches(record, query) ==
  \/ Contains(toLowerCase(record.typeName), toLowerCase(query))
  \/ \E k \in DOMAIN record.data :
       Contains(toLowerCase(record.data[k]), toLowerCase(query))

\* The records of s that match the query, in order.
Matching(s, query) == LET Hit(record) == Matches(record, query) IN SelectSeq(s, Hit)

\* C14: the item list shows exactly the records that match the search term
\* (lowercased query a substring of the lowercased type name or of a
\* lowercased data value), all of them for the empty term; a value
\* "Acme Corp" matches "acme" and "CORP" and not "acme widget".
C14_SearchMatches ==
  /\ filteredItems(items, ilSearchTerm) = Matching(items, ilSearchTerm)
  /\ ilSearchTerm = EmptyStr => filteredItems(items, ilSearchTerm) = items
  /\ \A i \in DOMAIN items :
       (AcmeCorp \in ObjectValues(items[i].data)) =>
         LET Shown(q) == Includes(filteredItems(<<items[i]>>, q), items[i])
         IN /\ Shown(<<"a", "c", "m", "e">>)
            /\ Shown(<<"C", "O", "R", "P">>)
            /\ ~Shown(<<"a", "c", "m", "e", " ", "w", "i", "d", "g", "e", "t">>)

\* C14's case: the item list is searched for "CORP" and shows some of the
\* items and hides others.
C14_Witness ==
  /\ currentView = "view-items"
  /\ ilSearchTerm = <<"C", "O", "R", "P">>
  /\ filteredItems(items, ilSearchTerm) # <<>>
  /\ filteredItems(items, ilSearchTerm) # items

\* The candidate sequences the three searches are applied to.
Candidates ==
  {items} \cup
  UNION {{projectItems(projects[i], items), availableItems(projects[i], items)} :
           i \in DOMAIN projects}

\* C15: the item list search, the project view search and the add-items
\* dialog search return the same subsequence for every candidate sequence
\* and every search term, the empty one included.
C15_SameSearchEverywhere ==
  \A its \in Candidates :
    \A q \in {EmptyStr, ilSearchTerm, pvSearchTerm, adSearchTerm} :
      /\ filteredItems(its, q) = filteredProjectItems(its, q)
      /\ filteredProjectItems(its, q) = ADfilteredItems(its, q)

\* C15's case: the dialog is open and searched for a data value, and shows
\* an available item while hiding nothing the other searches would show.
C15_Witness ==
  /\ currentView = "view-project"
  /\ pvIsAddingItems
  /\ adSearchTerm = <<"2">>
  /\ IsSome(selectedProject)
  /\ ADfilteredItems(availableItems(Get(selectedProject), items), adSearchTerm)
       # <<>>

\* The last handler wrote a workbook.
Exported == lastOp.op \in {"exportItems", "exportProject"} /\ lastOp.ok

\* The type sheets of the workbook last written: all of it for an item
\* export, all but the leading sheet for a project export.
WrittenTypeSheets ==
  LET sheets == Get(written).sheets
  IN IF lastOp.op = "exportProject" THEN Tail(sheets) ELSE sheets

\* The distinct type names of the records, each where it first occurs.
RECURSIVE FirstEncountered(_, _)
FirstEncountered(records, seen) ==
  IF records = <<>> THEN <<>>
  ELSE IF Head(records).typeName \in seen
       THEN FirstEncountered(Tail(records), seen)
       ELSE <<Head(records).typeName>>
              \o FirstEncountered(Tail(records),
                                  seen \cup {Head(records).typeName})

\* The first n characters of the string, or all of it if it is shorter.
Truncated(str, n) == [i \in 1..(IF Len(str) < n THEN Len(str) ELSE n) |-> str[i]]

\* C16: an export emits its type sheets in the order in which each distinct
\* typeName is first encountered in the exported records, also for type names
\* that read as non-negative integers.
C16_SheetsInFirstEncounterOrder ==
  Exported =>
    LET order == FirstEncountered(lastOp.seq, {})
    IN [i \in DOMAIN WrittenTypeSheets |-> WrittenTypeSheets[i].name]
         = [i \in DOMAIN order |-> Truncated(order[i], SheetNameLimit)]

\* The exported records of one type name, in input order.
RecordsOf(typeName) ==
  LET Same(record) == record.typeName = typeName IN SelectSeq(lastOp.seq, Same)

\* The first registered type of that name.
Resolved(typeName) ==
  itemTypes[CHOOSE i \in DOMAIN itemTypes :
              /\ itemTypes[i].name = typeName
              /\ \A j \in DOMAIN itemTypes :
                   itemTypes[j].name = typeName => i <= j]

\* The sheet is the one of the group of typeName: header ID, Created At and
\* the resolved type's field names, then one row per record of the group in
\* input order, each beginning with the record's id.
IsSheetOf(sheet, typeName) ==
  LET group == RecordsOf(typeName)
      fields == Resolved(typeName).fields
  IN /\ Len(sheet.data) = 1 + Len(group)
     /\ sheet.data[1] = <<IdLabel, CreatedAtLabel>>
                          \o [i \in DOMAIN fields |-> fields[i].name]
     /\ \A r \in DOMAIN group :
          /\ Len(sheet.data[r + 1]) = 2 + Len(fields)
          /\ sheet.data[r + 1][1] = group[r].id

\* C17: every exported group has its sheet, and every type sheet is the
\* sheet of a group: first row ID, Created At and the field names of the
\* resolved type in declared order, then exactly one row per record of the
\* group in input order, each starting with the record's id.
C17_SheetHeaderAndRows ==
  Exported =>
    LET names == Range(FirstEncountered(lastOp.seq, {}))
    IN /\ Len(WrittenTypeSheets) = Cardinality(names)
       /\ \A typeName \in names :
            \E j \in DOMAIN WrittenTypeSheets :
              IsSheetOf(WrittenTypeSheets[j], typeName)
       /\ \A j \in DOMAIN WrittenTypeSheets :
            \E typeName \in names : IsSheetOf(WrittenTypeSheets[j], typeName)

\* C17's case: a sheet of Name and When with two data rows was written.
C17_Witness ==
  /\ Exported
  /\ \E j \in DOMAIN WrittenTypeSheets :
       /\ Len(WrittenTypeSheets[j].data) = 3
       /\ WrittenTypeSheets[j].data[1] =
            <<IdLabel, CreatedAtLabel, <<"N", "a", "m", "e">>,
              <<"W", "h", "e", "n">>>>
       /\ WrittenTypeSheets[j].data[2][1] = MakeId("item", 1)
       /\ WrittenTypeSheets[j].data[3][1] = MakeId("item", 2)

\* The exported record with that id.
RecordById(id) ==
  lastOp.seq[CHOOSE i \in DOMAIN lastOp.seq : lastOp.seq[i].id = id]

\* The cell a data row should hold for the field: the locale date for a date
\* field with a value, the value itself for any other field with a value, and
\* the empty string without one.
ExpectedCell(record, field) ==
  IF field.id \notin DOMAIN record.data THEN <<>>
  ELSE IF field.type = "date" /\ record.data[field.id] # <<>>
       THEN toLocaleDateString(record.data[field.id])
       ELSE record.data[field.id]

\* C18: in every exported data row the cell of a date field with a non-empty
\* value is the locale date of the value, the cell of another field is the
\* value's string form, and the cell of a missing value is the empty string.
C18_DateCellsRendered ==
  Exported =>
    \A j \in DOMAIN WrittenTypeSheets :
      \A r \in 2..Len(WrittenTypeSheets[j].data) :
        LET row == WrittenTypeSheets[j].data[r]
            record == RecordById(row[1])
            fields == Resolved(record.typeName).fields
        IN \A i \in DOMAIN fields :
             row[2 + i] = ExpectedCell(record, fields[i])

\* C19: every type sheet is named with the first 31 characters of its
\* group's typeName, so the name is min(len(typeName), 31) long, and a sheet
\* is written for every group even when two names come out the same.
C19_SheetNameTruncated ==
  Exported =>
    /\ Len(WrittenTypeSheets)
         = Cardinality(Range(FirstEncountered(lastOp.seq, {})))
    /\ \A j \in DOMAIN WrittenTypeSheets :
         LET typeName == RecordById(WrittenTypeSheets[j].data[2][1]).typeName
             name == WrittenTypeSheets[j].name
         IN /\ Len(name) = (IF Len(typeName) < 31 THEN Len(typeName) ELSE 31)
            /\ \A i \in 1..Len(name) : name[i] = typeName[i]

\* C19's case: two groups of different 32-character type names were written
\* as two sheets of the same 31-character name.
C19_Witness ==
  /\ Exported
  /\ \E j, k \in DOMAIN WrittenTypeSheets :
       /\ j # k
       /\ WrittenTypeSheets[j].name = WrittenTypeSheets[k].name
       /\ Len(WrittenTypeSheets[j].name) = 31
       /\ WrittenTypeSheets[j].data # WrittenTypeSheets[k].data

\* C20: a project export starts with the metadata sheet, whose rows are the
\* project's name, description, location, created-at, updated-at and the
\* number of member ids that resolve to an item, followed by type sheets
\* only; an item export has no metadata sheet.
C20_ProjectInfoFirst ==
  /\ (lastOp.op = "exportProject" /\ lastOp.ok) =>
       LET project == Get(selectedProject)
           sheets == Get(written).sheets
           info == sheets[1]
       IN /\ info.name = ProjectInfoName
          /\ [i \in DOMAIN info.data |-> info.data[i][2]] =
               <<project.name, project.description, project.location,
                 toLocaleDateString(project.createdAt[1]),
                 toLocaleDateString(project.updatedAt[1]),
                 Cardinality(Range(project.itemIds) \cap ItemIdsOf(items))>>
          /\ [i \in DOMAIN info.data |-> info.data[i][1]] =
               <<"Project Name", "Description", "Location", "Created At",
                 "Updated At", "Total Items">>
          /\ \A j \in 2..Len(sheets) : sheets[j].name # ProjectInfoName
          /\ Len(sheets) = 1 + Cardinality(Range(FirstEncountered(lastOp.seq, {})))
  /\ (lastOp.op = "exportItems" /\ lastOp.ok) =>
       \A j \in DOMAIN Get(written).sheets :
         Get(written).sheets[j].name # ProjectInfoName

\* C20's case: a project listing an id that no item has was exported, and the
\* total counts the items found.
C20_Witness ==
  /\ lastOp.op = "exportProject"
  /\ lastOp.ok
  /\ ~(lastOp.ids \subseteq ItemIdsOf(items))
  /\ Get(written).sheets[1].data[6][2] = Len(items)

\* C21: an export of nothing is a no-op: with no item selected (item export)
\* or no member of the project found among the items (project export), no
\* workbook is written and the item types, items and projects stay as they
\* were.
C21_EmptyExportIsNoOp ==
  [][(\/ lastOp'.op = "exportItems" /\ ilSelectedItems = {}
      \/ /\ lastOp'.op = "exportProject"
         /\ Range(Get(selectedProject).itemIds) \cap ItemIdsOf(items) = {})
       => /\ written' = written
          /\ ~lastOp'.ok
          /\ UNCHANGED collections]_vars

\* C21's case: the export of a project whose only member id matches no item
\* wrote nothing.
C21_Witness ==
  /\ lastOp.op = "exportProject"
  /\ ~lastOp.ok
  /\ IsSome(selectedProject)
  /\ Get(selectedProject).itemIds # <<>>
  /\ written = None

\* The registry holds a type of that name.
Registered(typeName) == \E i \in DOMAIN itemTypes : itemTypes[i].name = typeName

\* Every data row of the sheet holds, for each field of the first type of
\* that name, the record's value under the field's id, or the empty string.
CellsFromFirstType(sheet, typeName) ==
  LET group == RecordsOf(typeName)
      fields == Resolved(typeName).fields
  IN \A r \in DOMAIN group :
       \A i \in DOMAIN fields :
         sheet.data[r + 1][2 + i] =
           (IF fields[i].id \in DOMAIN group[r].data
            THEN group[r].data[fields[i].id] ELSE <<>>)

\* C22: each exported group whose typeName names a registered type gets one
\* sheet, laid out with the fields of the first registered type of that name
\* (also for records created against a later type of the same name); a group
\* whose typeName names no registered type gets no sheet.
C22_FirstTypeOfNameRenders ==
  Exported =>
    LET names == Range(FirstEncountered(lastOp.seq, {}))
        known == {typeName \in names : Registered(typeName)}
    IN /\ Len(WrittenTypeSheets) = Cardinality(known)
       /\ \A typeName \in known :
            \E j \in DOMAIN WrittenTypeSheets :
              /\ IsSheetOf(WrittenTypeSheets[j], typeName)
              /\ CellsFromFirstType(WrittenTypeSheets[j], typeName)
       /\ \A typeName \in names \ known :
            \A j \in DOMAIN WrittenTypeSheets :
              \A r \in 2..Len(WrittenTypeSheets[j].data) :
                RecordById(WrittenTypeSheets[j].data[r][1]).typeName # typeName

\* C22's case: a record created against the second type named T was written
\* under the two fields of the first, next to a skipped group.
C22_Witness ==
  /\ Exported
  /\ \E i \in DOMAIN lastOp.seq : ~Registered(lastOp.seq[i].typeName)
  /\ \E j \in DOMAIN WrittenTypeSheets :
       /\ WrittenTypeSheets[j].data[1] = <<IdLabel, CreatedAtLabel, <<"A">>, <<"B">>>>
       /\ \E r \in 2..Len(WrittenTypeSheets[j].data) :
            /\ RecordById(WrittenTypeSheets[j].data[r][1]).typeId = SecondNamesake.id
            /\ Len(WrittenTypeSheets[j].data[r]) = 4

\* s without its i-th element.
RemoveAt(s, i) == SubSeq(s, 1, i - 1) \o SubSeq(s, i + 1, Len(s))

\* C23: deleteProject removes exactly the project with the given id: one
\* project leaves the collection, every other project stays as it was, and
\* the items and the item types are unchanged.
C23_DeleteProjectRemovesOne ==
  [][lastOp'.op = "handleDeleteProject" =>
       /\ \E i \in DOMAIN projects :
            /\ projects[i].id \in lastOp'.ids
            /\ projects' = RemoveAt(projects, i)
       /\ items' = items
       /\ itemTypes' = itemTypes]_vars

\* C24: removeItems takes exactly the given ids out of the viewed project's
\* itemIds, keeping the other ids in order, and leaves the items and every
\* other project unchanged.
C24_RemoveItemsFrame ==
  [][lastOp'.op = "removeItems" =>
       /\ \E i \in DOMAIN projects :
            /\ projects[i] = Get(selectedProject)
            /\ DOMAIN projects' = DOMAIN projects
            /\ projects'[i].itemIds = Without(projects[i].itemIds, lastOp'.ids)
            /\ \A j \in DOMAIN projects \ {i} : projects'[j] = projects[j]
       /\ items' = items]_vars

\* C29: while the project view is shown, the selected project is set and
\* every project of the collection with its id equals it, and there is one.
C29_SelectedProjectIsCurrent ==
  currentView = "view-project" =>
    /\ IsSome(selectedProject)
    /\ \E i \in DOMAIN projects : projects[i].id = Get(selectedProject).id
    /\ \A i \in DOMAIN projects :
         projects[i].id = Get(selectedProject).id
           => projects[i] = Get(selectedProject)


\* The positions of s whose record is kept when the ids of D are deleted.
KeptPositions(s, D) == {i \in DOMAIN s : s[i].id \notin D}

\* The j-th smallest element of a set of positions.
NthOf(P, j) == CHOOSE i \in P : Cardinality({k \in P : k <= i}) = j

\* C25: deleteItems removes exactly the records whose id is in the given
\* set: no remaining record has a given id, the records with other ids all
\* remain, unchanged and in their previous relative order, and given ids that
\* no record has are ignored.
C25_DeleteItemsExact ==
  [][lastOp'.op = "deleteItems" =>
       LET D == lastOp'.ids
           kept == KeptPositions(items, D)
       IN /\ \A j \in DOMAIN items' : items'[j].id \notin D
          /\ Len(items') = Cardinality(kept)
          /\ \A j \in DOMAIN items' : items'[j] = items[NthOf(kept, j)]
          /\ D \cap ItemIdsOf(items) = {} => items' = items]_vars

\* C25's case: a delete was given an id no record has together with the id of
\* a stored record (the one the project listed), and another record remains.
C25_Witness ==
  /\ lastOp.op = "deleteItems"
  /\ UnknownId \in lastOp.ids
  /\ \E i \in DOMAIN lastOp.prev :
       Range(lastOp.prev[i].itemIds) \cap lastOp.ids # {}
  /\ items # <<>>


\* a is b with some of its elements left out, the others in b's order.
RECURSIVE IsSubSeq(_, _)
IsSubSeq(a, b) ==
  IF a = <<>> THEN TRUE
  ELSE IF b = <<>> THEN FALSE
  ELSE \/ Head(a) = Head(b) /\ IsSubSeq(Tail(a), Tail(b))
       \/ IsSubSeq(a, Tail(b))

\* The pair (typeId, typeName) of the item is the (id, name) of a type of the
\* registry.
TypeOfItemIn(item, types) ==
  \E i \in DOMAIN types :
    types[i].id = item.typeId /\ types[i].name = item.typeName

\* C26: every step leaves each stored item's id, typeId, typeName, data and
\* createdAt as they were: the item sequence is unchanged, or loses records
\* to a delete, or gains one record at its end whose typeId and typeName are
\* the id and name of the type it was created from, a registered type.
C26_ItemsImmutable ==
  [][\/ items' = items
     \/ /\ lastOp'.op = "deleteItems"
        /\ IsSubSeq(items', items)
     \/ /\ lastOp'.op = "createItem"
        /\ Len(items') = Len(items) + 1
        /\ SubSeq(items', 1, Len(items)) = items
        /\ IsSome(selectedItemType)
        /\ items'[Len(items')].typeId = Get(selectedItemType).id
        /\ items'[Len(items')].typeName = Get(selectedItemType).name
        /\ TypeOfItemIn(items'[Len(items')], itemTypes)]_vars

\* C26's case: a delete removed a record and an older or younger record of a
\* registered type is still stored.
C26_Witness ==
  /\ lastOp.op = "deleteItems"
  /\ lastOp.ids # {}
  /\ items # <<>>
  /\ TypeOfItemIn(items[1], itemTypes)


\* C27: through the application's own operations no project's itemIds ever
\* holds the same id twice.
C27_NoDuplicateMember ==
  \A i \in DOMAIN projects : Distinct(projects[i].itemIds)

\* C27's case: the dialog added to a project that already had a member, and
\* the project now lists two ids.
C27_Witness ==
  /\ lastOp.op = "addItems"
  /\ \E i \in Rewritten :
       /\ lastOp.prev[i].itemIds # <<>>
       /\ Len(projects[i].itemIds) > Len(lastOp.prev[i].itemIds)


\* The data rows of a workbook's sheets: every row below a sheet's header.
DataRowCount(sheets) ==
  LET RECURSIVE Sum(_)
      Sum(n) == IF n = 0 THEN 0 ELSE Sum(n - 1) + (Len(sheets[n].data) - 1)
  IN Sum(Len(sheets))

\* C28: every stored item's typeId and typeName are those of a registered
\* type, and an export of the item list's selection writes a workbook that
\* has a sheet for every group and as many data rows as records selected.
C28_ExportEmitsEveryRecord ==
  /\ \A i \in DOMAIN items : TypeOfItemIn(items[i], itemTypes)
  /\ (lastOp.op = "exportItems" /\ lastOp.ids # {}) =>
       /\ lastOp.ok
       /\ IsSome(written)
       /\ Len(Get(written).sheets) = Len(GroupKeys(lastOp.seq))
       /\ DataRowCount(Get(written).sheets) = Len(lastOp.seq)


\* The ids the project view lists under its search term.
ShownMemberIds ==
  IF IsSome(selectedProject)
  THEN ItemIdsOf(filteredProjectItems(
                   projectItems(Get(selectedProject), items), pvSearchTerm))
  ELSE {}

\* C30: toggleSelectAll, in the item list and in the project view: when some
\* filtered item is not selected the selection becomes the set of filtered
\* ids, and the selection is cleared only when it already was that set.
C30_SelectAllToggles ==
  [][/\ lastOp'.op = "toggleSelectAllItems" =>
          LET shown == ItemIdsOf(filteredItems(items, ilSearchTerm))
          IN /\ shown \ ilSelectedItems # {} => ilSelectedItems' = shown
             /\ ilSelectedItems' = {} => ilSelectedItems = shown
     /\ lastOp'.op = "toggleSelectAllMembers" =>
          /\ ShownMemberIds \ pvSelectedItems # {} =>
                pvSelectedItems' = ShownMemberIds
          /\ pvSelectedItems' = {} => pvSelectedItems = ShownMemberIds]_vars

====
